---- MODULE Spec2Model ----
(***************************************************************************)
(* Model of the consolidate_csv_to_excel pipeline: CSV consolidation into  *)
(* a workbook, threshold / anomaly highlighting, sheet reordering and the  *)
(* surrounding main loop.  Text (sheet names, cell text, colour codes) is  *)
(* a sequence of one-character strings so that startswith, rstrip, int()   *)
(* and hex formatting are computed and not assumed.                        *)
(***************************************************************************)
EXTENDS Integers, Sequences, FiniteSets, TLC

VARIABLES
    pc,                \* position of the running operation
    variant,           \* which script is running: "by_date" | "by_host" | "legacy"
    units,             \* consolidation input: sequence of [name, src] in insertion order
    i,                 \* 1-based position of _create_sheets in units
    workbook,          \* sequence of sheets, workbook._sheets
    merge_failed_hosts,\* CSVConsolidator._merge_failed_hosts / _failed_hosts
    counts,            \* legacy counters [copied, no_csv, failed]
    absent_deletes,    \* number of sentinel deletions that found no sentinel
    threshold,         \* processing_time_threshold
    s,                 \* 1-based index of the sheet under analysis
    r,                 \* 1-based index of the data row under analysis
    has_highlighted_cell,
    hosts_with_threshold_exceedance,
    hosts_with_anomaly_value,
    new_order,         \* result of _create_new_order
    k,                 \* 1-based position of reorder_sheets_by_color in new_order
    error,             \* exception propagating out of the operation, or "none"
    color_args,        \* <<processing_time_seconds, threshold>> of a colour call
    color_out,         \* result of the colour call
    argv_date,         \* main: the date argument of the command line, if given
    clock_now,         \* main: the day datetime.now() falls on
    libc_pads_year,    \* main: whether strftime pads a year below 1000
    date_range,        \* main: the dates to process, ascending
    target_prefixes,   \* main: the requested target prefixes
    config_threshold,  \* main: processing_time_threshold_seconds of the config file
    config_file,       \* main: what loading the config file gives
    files,             \* main: the CSV file of each <<date, folder>>, or none
    target_folders,    \* main: os.listdir of the log root
    target_fullnames,  \* main: result of get_target_fullnames
    named_prefix,      \* main: the prefix the error of target resolution names, if any
    csv_by_date,       \* main: targets_and_csv_path_by_dates, one unit map per date
    date_index,        \* main: 1-based position in date_range
    prefix_index,      \* main: 1-based position in target_prefixes
    daily_summaries,   \* ProcessingSummary.daily_summaries
    daily_processing_results, \* ProcessingSummary.daily_processing_results
    summary_calls,     \* the calls of save_daily_processing_results so far
    opened,            \* main: the <<date, prefix>> workbooks opened for writing
    saved,             \* main: the <<date, prefix>> workbooks saved
    summary_log,       \* the blocks log_daily_summaries has logged
    exit_status        \* "running", or the exit status of the process

consVars  == <<variant, units, i, merge_failed_hosts, counts, absent_deletes>>
anaVars   == <<threshold, s, r, has_highlighted_cell,
               hosts_with_threshold_exceedance, hosts_with_anomaly_value>>
orderVars == <<new_order, k>>
colorVars == <<color_args, color_out>>
inputVars == <<argv_date, clock_now, libc_pads_year, date_range, target_prefixes,
               config_threshold, config_file, files, target_folders>>
loopVars  == <<target_fullnames, named_prefix, csv_by_date, date_index, prefix_index>>
sumVars   == <<daily_summaries, daily_processing_results, summary_calls, summary_log>>
outVars   == <<opened, saved, exit_status>>
mainVars  == <<inputVars, loopVars, sumVars, outVars>>
vars == <<pc, workbook, error, consVars, anaVars, orderVars, colorVars, mainVars>>

(***************************************************************************)
(* Bounds                                                                  *)
(***************************************************************************)
MaxThreshold == 6        \* largest threshold of a colour call
MaxFactor == 10         \* colour calls take values up to MaxFactor * threshold + 1
MaxUnits == 3           \* units of one consolidation
MaxCsvRows == 1         \* data rows of a CSV file given to the consolidator
MaxAbsentDeletes == 1   \* repeated sentinel deletions on a consolidated workbook
MaxRows == 2            \* data rows of a workbook given to the analysis
MaxSheets == 4          \* sheets of a workbook given to the reorder

(***************************************************************************)
(* Text helpers                                                            *)
(***************************************************************************)
HexDigits == <<"0","1","2","3","4","5","6","7","8","9","A","B","C","D","E","F">>

IsHexText(t) == \A n \in 1..Len(t) : \E d \in 1..16 : HexDigits[d] = t[n]

HexDigitValue(c) == (CHOOSE d \in 1..16 : HexDigits[d] = c) - 1

RECURSIVE HexValue(_)
HexValue(t) ==
    IF t = <<>> THEN 0
    ELSE 16 * HexValue(SubSeq(t, 1, Len(t) - 1)) + HexDigitValue(t[Len(t)])

RECURSIVE ToHexDigits(_)
ToHexDigits(n) ==
    IF n < 16 THEN <<HexDigits[n + 1]>>
    ELSE ToHexDigits(n \div 16) \o <<HexDigits[(n % 16) + 1]>>

\* Python's format(n, "02X"): upper-case hex, zero padded to a width of 2
\* (the sign counts in the width), never truncated.
FormatHex02(n) ==
    IF n < 0 THEN <<"-">> \o ToHexDigits(-n)
    ELSE LET h == ToHexDigits(n) IN IF Len(h) < 2 THEN <<"0">> \o h ELSE h

\* Python's int() of the exact quotient num / den: truncation toward zero.
TruncDiv(num, den) ==
    LET n == IF den < 0 THEN -num ELSE num
        d == IF den < 0 THEN -den ELSE den
    IN  IF n >= 0 THEN n \div d ELSE -((-n) \div d)

(***************************************************************************)
(* ExcelAnalyzer._calculate_color_based_on_excess_ratio                    *)
(***************************************************************************)
MAX_GREEN_VALUE == 255

\* Variant: the ratio is cut at 2 instead of 1.
ExcessRatioClampedAtTwo(value, thr) ==
    IF value - thr <= 2 * thr THEN <<value - thr, thr>> ELSE <<2, 1>>

\* excess_ratio = (value - threshold) / threshold, as the fraction
\* <<numerator, denominator>>; min(excess_ratio, 1) keeps it when it is <= 1.
ClampedExcessRatio(value, thr) ==
    LET ratioLeOne == IF thr > 0 THEN value - thr <= thr ELSE value - thr >= thr
    IN  IF ratioLeOne THEN <<value - thr, thr>> ELSE <<1, 1>>

\* Variant: the slope is 127 instead of MAX / 2 = 127.5.
GreenValueSlope127(value, thr) ==
    LET c == ClampedExcessRatio(value, thr)
    IN  TruncDiv(MAX_GREEN_VALUE * c[2] - 127 * c[1], c[2])

\* int(MAX - (MAX - MAX / 2) * ratio) = int((2 * MAX * den - MAX * num) / (2 * den))
GreenValue(value, thr) ==
    LET c == ClampedExcessRatio(value, thr)
    IN  TruncDiv(2 * MAX_GREEN_VALUE * c[2] - MAX_GREEN_VALUE * c[1], 2 * c[2])

CalculateColor(value, thr) ==
    IF thr = 0 THEN [raised |-> "ZeroDivisionError", code |-> <<>>]
    ELSE [raised |-> "none",
          code |-> <<"F","F">> \o FormatHex02(GreenValue(value, thr)) \o <<"7","F">>]

(***************************************************************************)
(* Cells, rows, sheets                                                     *)
(***************************************************************************)
NoColor == <<>>     \* tabColor is None
NoFill == <<>>      \* cell.fill.patternType is None

GRAY == <<"7","F","7","F","7","F">>
YELLOW == <<"F","F","F","F","7","F">>
TRANSPARENT == <<"F","F">>
GRAY_WITH_TRANSPARENT == TRANSPARENT \o GRAY
YELLOW_WITH_TRANSPARENT == TRANSPARENT \o YELLOW
LEGACY_TRANSPARENT == <<"0","0">>
LEGACY_GRAY_WITH_TRANSPARENT == LEGACY_TRANSPARENT \o GRAY
LEGACY_YELLOW_WITH_TRANSPARENT == LEGACY_TRANSPARENT \o YELLOW

\* openpyxl's colour descriptor: a colour is 6 or 8 hex digits, a 6-digit
\* colour is stored with "00" in front, anything else is a ValueError.
IsColorText(t) == Len(t) \in {6, 8} /\ IsHexText(t)
ColorRgb(t) == IF Len(t) = 6 THEN <<"0","0">> \o t ELSE t

SENTINEL_SHEET == <<"S","E","N","T","I","N","E","L","_","S","H","E","E","T">>

\* A cell value: None, a str (its characters) or a number.
NoneCell == [t |-> "none", s |-> <<>>, n |-> 0]
StrCell(text) == [t |-> "str", s |-> text, n |-> 0]
NumCell(x) == [t |-> "num", s |-> <<>>, n |-> x]

\* The alert-detail cell: None, a number, or a str standing for the value
\* json.loads returns on it.  An array lists its items: "obj_true" is an
\* object whose random_key is true, "obj_false" one whose random_key is
\* false, "obj_absent" one without random_key, "obj_one" one whose
\* random_key is the number 1, "scalar" an item that is no object.
JInvalid == [k |-> "invalid", items |-> <<>>]
JArray(items) == [k |-> "array", items |-> items]
JObject == [k |-> "object", items |-> <<"random_key">>]
JNumber == [k |-> "number", items |-> <<>>]
AlertNone == [t |-> "none", json |-> JInvalid]
AlertNum == [t |-> "num", json |-> JInvalid]
AlertStr(j) == [t |-> "str", json |-> j]

Row(time, alert) ==
    [time |-> time, alert |-> alert, timeFill |-> NoFill, alertFill |-> NoFill]

SentinelSheet ==
    [title |-> SENTINEL_SHEET, tabColor |-> NoColor, kind |-> "sentinel",
     rows |-> <<>>, complete |-> TRUE]

\* Variant: the placeholder's tab is left without a colour.
NoCsvSheetUncolored(name, gray) ==
    [title |-> name, tabColor |-> NoColor, kind |-> "placeholder",
     rows |-> <<>>, complete |-> TRUE]

\* The single-cell "No CSV file found." sheet: no header, no data row.
NoCsvSheet(name, gray) ==
    [title |-> name, tabColor |-> ColorRgb(gray), kind |-> "placeholder",
     rows |-> <<>>, complete |-> TRUE]

SheetNames(wb) == {wb[n].title : n \in 1..Len(wb)}

RECURSIVE SeqsOfLen(_, _)
SeqsOfLen(S, n) ==
    IF n = 0 THEN {<<>>}
    ELSE {Append(q, x) : q \in SeqsOfLen(S, n - 1), x \in S}

SeqsUpTo(S, n) == UNION {SeqsOfLen(S, m) : m \in 0..n}

(***************************************************************************)
(* CSV sources of a unit                                                   *)
(***************************************************************************)
NoFail == -1

\* csv_path is None
NoCsv == [kind |-> "none", rows |-> <<>>, fail_at |-> NoFail]
\* pd.read_csv raises on the file
ReadFail == [kind |-> "readfail", rows |-> <<>>, fail_at |-> NoFail]
\* pd.read_csv returns a table; df.to_excel raises after it has written
\* fail_at cells of the body (NoFail: it writes them all)
Table(rows, fail_at) == [kind |-> "table", rows |-> rows, fail_at |-> fail_at]

TablesOver(RowSet, maxRows) ==
    {Table(rows, f) : rows \in SeqsUpTo(RowSet, maxRows), f \in {NoFail}}
    \cup UNION {{Table(rows, f) : f \in 0..(2 * Len(rows) - 1)} :
                    rows \in SeqsUpTo(RowSet, maxRows)}

\* to_excel writes the body column by column (the processing-time column
\* before the alert-detail column, each top to bottom), so after n cells
\* cell number c of that order holds its value and the later ones hold None.
WrittenRows(rows, fail_at) ==
    IF fail_at = NoFail THEN rows
    ELSE [n \in 1..Len(rows) |->
            Row(IF n <= fail_at THEN rows[n].time ELSE NoneCell,
                IF Len(rows) + n <= fail_at THEN rows[n].alert ELSE AlertNone)]

\* The sheet df.to_excel leaves in the workbook: it is created and titled
\* before the first cell is written, and nothing removes it when a later
\* cell raises.
WrittenSheet(name, src) ==
    [title |-> name, tabColor |-> NoColor, kind |-> "data",
     rows |-> WrittenRows(src.rows, src.fail_at),
     complete |-> (src.fail_at = NoFail)]

(***************************************************************************)
(* CSVConsolidator (consolidate_csvs_to_excel_by_date.py; the same code is *)
(* in consolidate_csvs_to_excel_by_host.py and csv_consolidator.py)        *)
(***************************************************************************)
\* Variant: a read failure is swallowed without being recorded.
SheetFromCsvUnrecorded(wb, failed, name, src) ==
    IF src.kind = "readfail"
    THEN [workbook |-> wb, failed |-> failed, ok |-> FALSE]
    ELSE [workbook |-> Append(wb, [title |-> name, tabColor |-> NoColor, kind |-> "data",
                                   rows |-> WrittenRows(src.rows, src.fail_at),
                                   complete |-> (src.fail_at = NoFail)]),
          failed |-> IF src.fail_at = NoFail THEN failed ELSE failed \cup {name},
          ok |-> src.fail_at = NoFail]

\* What _create_sheet_from_csv does to <<workbook, failure set>>: read_csv
\* raising leaves the workbook alone; to_excel appends the sheet it wrote,
\* finished or not; both failures land in the one except clause.
SheetFromCsv(wb, failed, name, src) ==
    IF src.kind = "readfail"
    THEN [workbook |-> wb, failed |-> failed \cup {name}, ok |-> FALSE]
    ELSE [workbook |-> Append(wb, WrittenSheet(name, src)),
          failed |-> IF src.fail_at = NoFail THEN failed ELSE failed \cup {name},
          ok |-> src.fail_at = NoFail]

\* Variant: the deletion leaves the workbook as it is.
SentinelKept(wb) == wb

\* del workbook["SENTINEL_SHEET"]
WithoutSentinel(wb) == SelectSeq(wb, LAMBDA sh : sh.title # SENTINEL_SHEET)

CreateSentinelSheet ==
    /\ pc = "consolidate"
    /\ variant = "by_date"
    /\ workbook' = Append(workbook, SentinelSheet)
    /\ i' = 1
    /\ pc' = "create_sheets"
    /\ UNCHANGED <<variant, units, merge_failed_hosts, counts, absent_deletes,
                   error, anaVars, orderVars, colorVars, mainVars>>

CreateSheetFromCsv ==
    /\ pc = "create_sheets"
    /\ variant = "by_date"
    /\ i <= Len(units)
    /\ units[i].src.kind # "none"
    /\ LET res == SheetFromCsv(workbook, merge_failed_hosts,
                               units[i].name, units[i].src)
       IN  /\ workbook' = res.workbook
           /\ merge_failed_hosts' = res.failed
    /\ i' = i + 1
    /\ UNCHANGED <<pc, variant, units, counts, absent_deletes,
                   error, anaVars, orderVars, colorVars, mainVars>>

CreateNoCsvSheet ==
    /\ pc = "create_sheets"
    /\ variant = "by_date"
    /\ i <= Len(units)
    /\ units[i].src.kind = "none"
    /\ workbook' = Append(workbook, NoCsvSheet(units[i].name, GRAY_WITH_TRANSPARENT))
    /\ i' = i + 1
    /\ UNCHANGED <<pc, variant, units, merge_failed_hosts, counts, absent_deletes,
                   error, anaVars, orderVars, colorVars, mainVars>>

\* _delete_sentinel_sheet, the last step of consolidate_csvs_to_excel
DeleteSentinelSheet ==
    /\ variant = "by_date"
    /\ pc = "create_sheets"
    /\ i > Len(units)
    /\ IF SENTINEL_SHEET \in SheetNames(workbook)
       THEN /\ workbook' = WithoutSentinel(workbook)
            /\ UNCHANGED absent_deletes
       ELSE /\ absent_deletes' = absent_deletes + 1
            /\ UNCHANGED workbook
    /\ pc' = "consolidated"
    /\ UNCHANGED <<variant, units, i, merge_failed_hosts, counts,
                   error, anaVars, orderVars, colorVars, mainVars>>

\* _delete_sentinel_sheet called once more on the consolidated workbook
DeleteSentinelSheetAgain ==
    /\ variant = "by_date"
    /\ pc = "consolidated"
    /\ absent_deletes < MaxAbsentDeletes
    /\ IF SENTINEL_SHEET \in SheetNames(workbook)
       THEN /\ workbook' = WithoutSentinel(workbook)
            /\ UNCHANGED absent_deletes
       ELSE /\ absent_deletes' = absent_deletes + 1
            /\ UNCHANGED workbook
    /\ UNCHANGED <<pc, variant, units, i, merge_failed_hosts, counts,
                   error, anaVars, orderVars, colorVars, mainVars>>

(***************************************************************************)
(* CSVConsolidator of consolidate_csv_to_excel.py: the same three steps on *)
(* a file that is opened, changed and saved by each of them                *)
(***************************************************************************)
\* create_excel_with_sentinel_sheet: an existing output file ends the process.
LegacyCreateExcelWithSentinelSheet ==
    /\ pc = "consolidate"
    /\ variant = "legacy"
    /\ \E exists \in BOOLEAN :
         IF exists
         THEN /\ error' = "SystemExit"
              /\ pc' = "raised"
              /\ UNCHANGED <<workbook, i>>
         ELSE /\ workbook' = Append(workbook, SentinelSheet)
              /\ i' = 1
              /\ pc' = "create_sheets"
              /\ UNCHANGED error
    /\ UNCHANGED <<variant, units, merge_failed_hosts, counts, absent_deletes,
                   anaVars, orderVars, colorVars, mainVars>>

LegacyCopyCsvToExcel ==
    /\ pc = "create_sheets"
    /\ variant = "legacy"
    /\ i <= Len(units)
    /\ units[i].src.kind # "none"
    /\ LET res == SheetFromCsv(workbook, merge_failed_hosts,
                               units[i].name, units[i].src)
       IN  /\ workbook' = res.workbook
           /\ merge_failed_hosts' = res.failed
           /\ counts' = IF res.ok
                        THEN [counts EXCEPT !.copied = @ + 1]
                        ELSE [counts EXCEPT !.failed = @ + 1]
    /\ i' = i + 1
    /\ UNCHANGED <<pc, variant, units, absent_deletes,
                   error, anaVars, orderVars, colorVars, mainVars>>

LegacyCreateNoCsvSheetToExcel ==
    /\ pc = "create_sheets"
    /\ variant = "legacy"
    /\ i <= Len(units)
    /\ units[i].src.kind = "none"
    /\ workbook' = Append(workbook, NoCsvSheet(units[i].name, GRAY))
    /\ counts' = [counts EXCEPT !.no_csv = @ + 1]
    /\ i' = i + 1
    /\ UNCHANGED <<pc, variant, units, merge_failed_hosts, absent_deletes,
                   error, anaVars, orderVars, colorVars, mainVars>>

\* remove_sentinel_sheet: load, delete, save.  Saving a workbook that has
\* no sheet left raises IndexError and the file keeps what it held.
LegacyRemoveSentinelSheet ==
    /\ variant = "legacy"
    /\ pc = "create_sheets"
    /\ i > Len(units)
    /\ IF SENTINEL_SHEET \in SheetNames(workbook)
       THEN IF WithoutSentinel(workbook) = <<>>
            THEN /\ error' = "IndexError"
                 /\ pc' = "raised"
                 /\ UNCHANGED <<workbook, absent_deletes>>
            ELSE /\ workbook' = WithoutSentinel(workbook)
                 /\ pc' = "consolidated"
                 /\ UNCHANGED <<error, absent_deletes>>
       ELSE /\ absent_deletes' = absent_deletes + 1
            /\ pc' = "consolidated"
            /\ UNCHANGED <<workbook, error>>
    /\ UNCHANGED <<variant, units, i, merge_failed_hosts, counts,
                   anaVars, orderVars, colorVars, mainVars>>

\* remove_sentinel_sheet called once more on the file it has cleaned
LegacyRemoveSentinelSheetAgain ==
    /\ variant = "legacy"
    /\ pc = "consolidated"
    /\ absent_deletes < MaxAbsentDeletes
    /\ IF SENTINEL_SHEET \in SheetNames(workbook)
       THEN IF WithoutSentinel(workbook) = <<>>
            THEN /\ error' = "IndexError"
                 /\ pc' = "raised"
                 /\ UNCHANGED <<workbook, absent_deletes>>
            ELSE /\ workbook' = WithoutSentinel(workbook)
                 /\ UNCHANGED <<pc, error, absent_deletes>>
       ELSE /\ absent_deletes' = absent_deletes + 1
            /\ UNCHANGED <<pc, workbook, error>>
    /\ UNCHANGED <<variant, units, i, merge_failed_hosts, counts,
                   anaVars, orderVars, colorVars, mainVars>>

(***************************************************************************)
(* Consolidation of one unit map, both consolidators                       *)
(***************************************************************************)
RowA == Row(StrCell(<<"5","s">>), AlertStr(JArray(<<"obj_false">>)))

ConsSources == {NoCsv, ReadFail} \cup TablesOver({RowA}, MaxCsvRows)

Unit(name, src) == [name |-> name, src |-> src]

\* Unit number n of a unit map is named h<n>: the keys of a dict are
\* distinct, and the consolidator does not look into them.
UnitName(n) == <<"h", HexDigits[n + 1]>>

\* filtered_targets_and_csv_path: up to maxUnits units, each with a source
IsUnitMap(us, Sources, maxUnits) ==
    \E n \in 0..maxUnits : \E srcs \in [1..n -> Sources] :
        us = [j \in 1..n |-> Unit(UnitName(j), srcs[j])]

IdleAnalyzer ==
    /\ threshold = 1
    /\ s = 1
    /\ r = 1
    /\ has_highlighted_cell = FALSE
    /\ hosts_with_threshold_exceedance = {}
    /\ hosts_with_anomaly_value = {}

IdleOrder == new_order = <<>> /\ k = 1

IdleColor == color_args = <<1, 1>> /\ color_out = [raised |-> "none", code |-> <<>>]

IdleMain ==
    /\ argv_date = [given |-> FALSE, text |-> <<>>]
    /\ clock_now = <<1, 1, 2>>
    /\ libc_pads_year = TRUE
    /\ date_range = <<>>
    /\ target_prefixes = <<>>
    /\ config_threshold = [valid |-> TRUE, value |-> 1]
    /\ config_file = "ok"
    /\ files = <<>>
    /\ target_folders = <<>>
    /\ target_fullnames = <<>>
    /\ named_prefix = <<>>
    /\ csv_by_date = <<>>
    /\ date_index = 1
    /\ prefix_index = 1
    /\ daily_summaries = <<>>
    /\ daily_processing_results = <<>>
    /\ summary_calls = <<>>
    /\ opened = <<>>
    /\ saved = <<>>
    /\ summary_log = <<>>
    /\ exit_status = "running"

InitConsolidator ==
    /\ pc = "consolidate"
    /\ variant \in {"by_date", "legacy"}
    /\ IsUnitMap(units, ConsSources, MaxUnits)
    /\ variant = "legacy" => units # <<>>
    /\ i = 1
    /\ workbook = <<>>
    /\ merge_failed_hosts = {}
    /\ counts = [copied |-> 0, no_csv |-> 0, failed |-> 0]
    /\ absent_deletes = 0
    /\ error = "none"
    /\ IdleAnalyzer
    /\ IdleOrder
    /\ IdleColor
    /\ IdleMain

NextConsolidator ==
    \/ CreateSentinelSheet
    \/ CreateSheetFromCsv
    \/ CreateNoCsvSheet
    \/ DeleteSentinelSheet
    \/ DeleteSentinelSheetAgain
    \/ LegacyCreateExcelWithSentinelSheet
    \/ LegacyCopyCsvToExcel
    \/ LegacyCreateNoCsvSheetToExcel
    \/ LegacyRemoveSentinelSheet
    \/ LegacyRemoveSentinelSheetAgain

SpecConsolidator == InitConsolidator /\ [][NextConsolidator]_vars

(***************************************************************************)
(* ExcelAnalyzer: the two per-row checks                                   *)
(***************************************************************************)
DecimalDigits == <<"0","1","2","3","4","5","6","7","8","9">>

IsDigit(c) == \E d \in 1..10 : DecimalDigits[d] = c

DigitValue(c) == (CHOOSE d \in 1..10 : DecimalDigits[d] = c) - 1

RECURSIVE RStrip(_, _)
\* str.rstrip(c): drop every trailing c
RStrip(text, c) ==
    IF text # <<>> /\ text[Len(text)] = c
    THEN RStrip(SubSeq(text, 1, Len(text) - 1), c)
    ELSE text

RECURSIVE DigitsValue(_)
DigitsValue(text) ==
    IF text = <<>> THEN 0
    ELSE 10 * DigitsValue(SubSeq(text, 1, Len(text) - 1)) + DigitValue(text[Len(text)])

\* int(text) on text without blanks or underscores: an optional sign and at
\* least one decimal digit, anything else is a ValueError.
ParseInt(text) ==
    LET signed == text # <<>> /\ text[1] \in {"-", "+"}
        body == IF signed THEN Tail(text) ELSE text
    IN  IF body = <<>> \/ \E n \in 1..Len(body) : ~IsDigit(body[n])
        THEN [ok |-> FALSE, value |-> 0]
        ELSE [ok |-> TRUE,
              value |-> IF signed /\ text[1] = "-"
                        THEN -DigitsValue(body) ELSE DigitsValue(body)]

\* bool(cell.value)
Truthy(cell) ==
    \/ cell.t = "str" /\ cell.s # <<>>
    \/ cell.t = "num" /\ cell.n # 0

CheckResult(returned, fill, raised) ==
    [returned |-> returned, fill |-> fill, raised |-> raised]

\* _highlight_cell inside _check_and_highlight_processing_time: PatternFill
\* rejects a colour code that is not 6 or 8 hex digits with a ValueError,
\* which the caller's except clause takes for a bad processing time.
HighlightProcessingTime(code) ==
    IF IsColorText(code) THEN CheckResult(TRUE, ColorRgb(code), "none")
    ELSE CheckResult(FALSE, NoFill, "none")

\* _check_and_highlight_processing_time: what it returns, the fill it gives
\* the cell (NoFill: none) and the exception that leaves it.
CheckProcessingTime(cell, thr) ==
    IF ~Truthy(cell) THEN CheckResult(FALSE, NoFill, "none")
    ELSE IF cell.t # "str" THEN CheckResult(FALSE, NoFill, "AttributeError")
    ELSE LET parsed == ParseInt(RStrip(cell.s, "s"))
         IN  IF ~parsed.ok THEN CheckResult(FALSE, NoFill, "none")
             ELSE IF parsed.value >= thr
             THEN LET color == CalculateColor(parsed.value, thr)
                  IN  IF color.raised # "none"
                      THEN CheckResult(FALSE, NoFill, color.raised)
                      ELSE HighlightProcessingTime(color.code)
             ELSE CheckResult(FALSE, NoFill, "none")

RECURSIVE AnyRandomKeyTrue(_)
\* any(item.get("random_key") is True for item in items), left to right:
\* "found" at the first object whose random_key is true, "AttributeError" at
\* an item without .get met before that, "none" otherwise.
AnyRandomKeyTrue(items) ==
    IF items = <<>> THEN "none"
    ELSE IF Head(items) = "obj_true" THEN "found"
    ELSE IF Head(items) \in {"obj_false", "obj_absent", "obj_one"}
    THEN AnyRandomKeyTrue(Tail(items))
    ELSE "AttributeError"

\* _check_and_highlight_alert_detail: json.loads refuses a value that is no
\* str with TypeError, iterating a JSON object yields its keys (str), a JSON
\* number is not iterable; only JSONDecodeError is caught.  An alert cell
\* that is not None holds a non-empty str or a non-zero number.
CheckAlertDetail(cell) ==
    IF cell.t = "none" THEN CheckResult(FALSE, NoFill, "none")
    ELSE IF cell.t # "str" THEN CheckResult(FALSE, NoFill, "TypeError")
    ELSE IF cell.json.k = "invalid" THEN CheckResult(FALSE, NoFill, "none")
    ELSE IF cell.json.k = "number" THEN CheckResult(FALSE, NoFill, "TypeError")
    ELSE LET any == IF cell.json.k = "array"
                    THEN AnyRandomKeyTrue(cell.json.items)
                    ELSE IF cell.json.items = <<>> THEN "none" ELSE "AttributeError"
         IN  IF any = "found" THEN CheckResult(TRUE, ColorRgb(YELLOW), "none")
             ELSE IF any = "none" THEN CheckResult(FALSE, NoFill, "none")
             ELSE CheckResult(FALSE, NoFill, any)

(***************************************************************************)
(* ExcelAnalyzer.highlight_cells_and_sheet_tab_by_criteria                 *)
(***************************************************************************)
\* One data row of the sheet under analysis: the processing-time check, then
\* the alert-detail check; an exception of either leaves the method.
AnalyzeRow ==
    /\ pc = "highlight"
    /\ s <= Len(workbook)
    /\ r <= Len(workbook[s].rows)
    /\ LET row == workbook[s].rows[r]
           host_name == workbook[s].title
           time == CheckProcessingTime(row.time, threshold)
           alert == CheckAlertDetail(row.alert)
       IN  IF time.raised # "none"
           THEN /\ error' = time.raised
                /\ pc' = "raised"
                /\ UNCHANGED <<workbook, r, has_highlighted_cell,
                               hosts_with_threshold_exceedance,
                               hosts_with_anomaly_value>>
           ELSE /\ hosts_with_threshold_exceedance' =
                       IF time.returned
                       THEN hosts_with_threshold_exceedance \cup {host_name}
                       ELSE hosts_with_threshold_exceedance
                /\ IF alert.raised # "none"
                   THEN /\ error' = alert.raised
                        /\ pc' = "raised"
                        /\ workbook' = [workbook EXCEPT ![s].rows[r].timeFill =
                                           IF time.returned THEN time.fill ELSE @]
                        /\ has_highlighted_cell' = (has_highlighted_cell \/ time.returned)
                        /\ UNCHANGED <<r, hosts_with_anomaly_value>>
                   ELSE /\ workbook' = [workbook EXCEPT
                               ![s].rows[r].timeFill =
                                   IF time.returned THEN time.fill ELSE @,
                               ![s].rows[r].alertFill =
                                   IF alert.returned THEN alert.fill ELSE @]
                        /\ hosts_with_anomaly_value' =
                               IF alert.returned
                               THEN hosts_with_anomaly_value \cup {host_name}
                               ELSE hosts_with_anomaly_value
                        /\ has_highlighted_cell' =
                               (has_highlighted_cell \/ time.returned \/ alert.returned)
                        /\ r' = r + 1
                        /\ UNCHANGED <<pc, error>>
    /\ UNCHANGED <<threshold, s, consVars, orderVars, colorVars, mainVars>>

\* Variant: has_highlighted_cell is not reset for the next sheet.
FinishSheetKeepingFlag ==
    /\ pc = "highlight"
    /\ s <= Len(workbook)
    /\ r > Len(workbook[s].rows)
    /\ workbook' = IF has_highlighted_cell
                   THEN [workbook EXCEPT ![s].tabColor = ColorRgb(YELLOW_WITH_TRANSPARENT)]
                   ELSE workbook
    /\ s' = s + 1
    /\ r' = 1
    /\ UNCHANGED <<pc, error, threshold, has_highlighted_cell,
                   hosts_with_threshold_exceedance,
                   hosts_with_anomaly_value, consVars, orderVars, colorVars, mainVars>>

\* Variant: the tab of every analysed sheet is coloured.
FinishSheetTaggingEverySheet ==
    /\ pc = "highlight"
    /\ s <= Len(workbook)
    /\ r > Len(workbook[s].rows)
    /\ workbook' = [workbook EXCEPT ![s].tabColor = ColorRgb(YELLOW_WITH_TRANSPARENT)]
    /\ s' = s + 1
    /\ r' = 1
    /\ has_highlighted_cell' = FALSE
    /\ UNCHANGED <<pc, error, threshold, hosts_with_threshold_exceedance,
                   hosts_with_anomaly_value, consVars, orderVars, colorVars, mainVars>>

\* The rows of the sheet are done: colour its tab if a cell was highlighted.
FinishSheet ==
    /\ pc = "highlight"
    /\ s <= Len(workbook)
    /\ r > Len(workbook[s].rows)
    /\ workbook' = IF has_highlighted_cell
                   THEN [workbook EXCEPT ![s].tabColor = ColorRgb(YELLOW_WITH_TRANSPARENT)]
                   ELSE workbook
    /\ s' = s + 1
    /\ r' = 1
    /\ has_highlighted_cell' = FALSE
    /\ UNCHANGED <<pc, error, threshold, hosts_with_threshold_exceedance,
                   hosts_with_anomaly_value, consVars, orderVars, colorVars, mainVars>>

FinishHighlight ==
    /\ pc = "highlight"
    /\ s > Len(workbook)
    /\ pc' = "highlighted"
    /\ UNCHANGED <<workbook, error, consVars, anaVars, orderVars, colorVars, mainVars>>

(***************************************************************************)
(* ExcelAnalyzer.reorder_sheets_by_color                                   *)
(***************************************************************************)
TitlesTagged(wb, colors) ==
    LET kept == SelectSeq(wb, LAMBDA sh : sh.tabColor \in colors)
    IN  [n \in 1..Len(kept) |-> kept[n].title]

\* Variant: the gray sheets come before the untagged ones.
NewOrderGrayBeforeNone(wb) ==
    TitlesTagged(wb, {YELLOW_WITH_TRANSPARENT})
    \o TitlesTagged(wb, {GRAY_WITH_TRANSPARENT})
    \o TitlesTagged(wb, {NoColor})

\* _create_new_order: a sheet whose tab has some other colour is in none of
\* the three lists.
CreateNewOrderOf(wb) ==
    TitlesTagged(wb, {YELLOW_WITH_TRANSPARENT})
    \o TitlesTagged(wb, {NoColor})
    \o TitlesTagged(wb, {GRAY_WITH_TRANSPARENT})

\* Variant: the sheet is put at the front of the workbook.
MoveSheetToFront(wb, name, offset) ==
    LET idx == CHOOSE n \in 1..Len(wb) : wb[n].title = name
        rest == SubSeq(wb, 1, idx - 1) \o SubSeq(wb, idx + 1, Len(wb))
    IN  <<wb[idx]>> \o rest

\* Workbook.move_sheet(name, offset): take the sheet out and list.insert it
\* at its old index plus offset; insert past the end appends.
MoveSheet(wb, name, offset) ==
    LET idx == CHOOSE n \in 1..Len(wb) : wb[n].title = name
        rest == SubSeq(wb, 1, idx - 1) \o SubSeq(wb, idx + 1, Len(wb))
        at == IF idx - 1 + offset > Len(rest) THEN Len(rest) ELSE idx - 1 + offset
    IN  SubSeq(rest, 1, at) \o <<wb[idx]>> \o SubSeq(rest, at + 1, Len(rest))

CreateNewOrder ==
    /\ pc = "highlighted"
    /\ new_order' = CreateNewOrderOf(workbook)
    /\ k' = 1
    /\ pc' = "move_sheets"
    /\ UNCHANGED <<workbook, error, consVars, anaVars, colorVars, mainVars>>

MoveNextSheet ==
    /\ pc = "move_sheets"
    /\ k <= Len(new_order)
    /\ workbook' = MoveSheet(workbook, new_order[k], Len(workbook))
    /\ k' = k + 1
    /\ UNCHANGED <<pc, new_order, error, consVars, anaVars, colorVars, mainVars>>

FinishReorder ==
    /\ pc = "move_sheets"
    /\ k > Len(new_order)
    /\ pc' = "reordered"
    /\ UNCHANGED <<workbook, new_order, k, error, consVars, anaVars, colorVars, mainVars>>

(***************************************************************************)
(* Claims on consolidation                                                 *)
(***************************************************************************)
GrayOf(v) == IF v = "legacy" THEN LEGACY_GRAY_WITH_TRANSPARENT ELSE GRAY_WITH_TRANSPARENT

Consolidated == pc = "consolidated" /\ error = "none"

ReadFailed(u) == u.src.kind = "readfail"

\* The sheet a unit gets from its own source alone.
OwnSheet(u) ==
    IF u.src.kind = "none" THEN NoCsvSheet(u.name, GrayOf(variant))
    ELSE WrittenSheet(u.name, u.src)

OtherUnits == SelectSeq(units, LAMBDA u : ~ReadFailed(u))

\* C2: when consolidation has returned, every unit whose CSV raised while
\* being read is in the merge-failure set and has no sheet, and the workbook
\* is, in order, the sheet each other unit gets from its own source alone.
C2_ReadFailureIsLocal ==
    Consolidated =>
        /\ \A j \in 1..Len(units) :
              ReadFailed(units[j]) =>
                  /\ units[j].name \in merge_failed_hosts
                  /\ units[j].name \notin SheetNames(workbook)
        /\ Len(workbook) = Len(OtherUnits)
        /\ \A j \in 1..Len(OtherUnits) : workbook[j] = OwnSheet(OtherUnits[j])

C2_Witness ==
    /\ Consolidated
    /\ Len(units) = 3
    /\ ReadFailed(units[2])
    /\ units[1].src.kind = "table"
    /\ units[3].src.kind = "none"
    /\ Len(workbook) = 2

\* C3: when consolidation has returned, no unit of the failure set has a
\* sheet named after it in the workbook.
C3_NoSheetForFailedUnit ==
    Consolidated =>
        \A n \in merge_failed_hosts : n \notin SheetNames(workbook)

AllMissing == \A j \in 1..Len(units) : units[j].src.kind = "none"

SentinelPresent == SENTINEL_SHEET \in SheetNames(workbook)

\* C5: the sentinel is the first sheet of the workbook as long as it is
\* there, it goes only once every unit has been processed, it is not there
\* when consolidation has returned, and a deletion that finds it absent
\* raises nothing.
C5_SentinelLifecycle ==
    /\ [](SentinelPresent => workbook[1].title = SENTINEL_SHEET)
    /\ []((pc = "create_sheets" /\ i <= Len(units)) => SentinelPresent)
    /\ [](pc = "consolidated" => ~SentinelPresent)
    /\ [](absent_deletes > 0 => Consolidated)
    /\ [][(SentinelPresent /\ ~SentinelPresent') => i > Len(units)]_vars

C5_Witness ==
    /\ Consolidated
    /\ absent_deletes = 1
    /\ variant = "by_date"
    /\ Len(workbook) = 3

(***************************************************************************)
(* Analysis of a workbook                                                  *)
(***************************************************************************)
TimeValues ==
    {NoneCell, StrCell(<<"3","s">>), StrCell(<<"4","s">>), StrCell(<<"5","s">>),
     StrCell(<<"a","b","c">>), NumCell(5)}

AlertValues ==
    {AlertNone, AlertStr(JInvalid), AlertStr(JArray(<<"obj_true">>)),
     AlertStr(JArray(<<"obj_false">>)), AlertStr(JObject), AlertNum,
     AlertStr(JArray(<<"obj_false", "obj_true">>)),
     AlertStr(JArray(<<"scalar", "obj_true">>))}

\* Every value of one cell beside an ordinary value of the other.
OrdinaryTimes == {StrCell(<<"3","s">>), StrCell(<<"5","s">>)}

OrdinaryAlerts == {AlertStr(JArray(<<"obj_true">>)), AlertStr(JArray(<<"obj_false">>))}

AnaRows ==
    {row \in {Row(time, alert) : time \in TimeValues, alert \in AlertValues} :
        row.time \in OrdinaryTimes \/ row.alert \in OrdinaryAlerts}

Thresholds == {-4, 0, 4}

AnaTitles == <<<<"h","1">>, <<"h","2">>>>

DataSheet(title, rows) ==
    [title |-> title, tabColor |-> NoColor, kind |-> "data",
     rows |-> rows, complete |-> TRUE]

\* The sheets with n data rows; without data rows also the placeholder.
AnaSheets(title, n) ==
    {DataSheet(title, rows) : rows \in SeqsOfLen(AnaRows, n)}
    \cup (IF n = 0 THEN {NoCsvSheet(title, GRAY_WITH_TRANSPARENT)} ELSE {})

\* One or two sheets with at most MaxRows data rows between them.
IsAnaWorkbook(wb) ==
    \E n \in 0..MaxRows : \E a \in AnaSheets(AnaTitles[1], n) :
        \/ wb = <<a>>
        \/ \E m \in 0..(MaxRows - n) : \E b \in AnaSheets(AnaTitles[2], m) :
              wb = <<a, b>>

IdleConsolidator ==
    /\ variant = "by_date"
    /\ units = <<>>
    /\ i = 1
    /\ merge_failed_hosts = {}
    /\ counts = [copied |-> 0, no_csv |-> 0, failed |-> 0]
    /\ absent_deletes = 0

InitAnalyzer ==
    /\ pc = "highlight"
    /\ IsAnaWorkbook(workbook)
    /\ threshold \in Thresholds
    /\ s = 1
    /\ r = 1
    /\ has_highlighted_cell = FALSE
    /\ hosts_with_threshold_exceedance = {}
    /\ hosts_with_anomaly_value = {}
    /\ error = "none"
    /\ IdleConsolidator
    /\ IdleOrder
    /\ IdleColor
    /\ IdleMain

NextAnalyzer ==
    \/ AnalyzeRow
    \/ FinishSheet
    \/ FinishHighlight

SpecAnalyzer == InitAnalyzer /\ [][NextAnalyzer]_vars

\* The rows the analysis has been through: those before <<s, r>>, and the
\* row an exception came from.
Analyzed(a, b) ==
    /\ a \in 1..Len(workbook)
    /\ b \in 1..Len(workbook[a].rows)
    /\ \/ a < s
       \/ a = s /\ b < r
       \/ a = s /\ b = r /\ pc = "raised"

MalformedTime(cell) ==
    \/ cell.t = "num"
    \/ cell.t = "str" /\ ~ParseInt(RStrip(cell.s, "s")).ok

MalformedAlert(cell) ==
    \/ cell.t = "num"
    \/ cell.t = "str" /\ cell.json.k \in {"invalid", "object", "number"}
    \/ cell.t = "str" /\ cell.json.k = "array"
          /\ \E n \in 1..Len(cell.json.items) : cell.json.items[n] = "scalar"

\* C7: no exception caused by the value of a processing-time or alert-detail
\* cell leaves the analysis, and a cell whose value is malformed (non-numeric
\* time text, a value that is no str, text that is not JSON, JSON that is not
\* an array of objects) stays unhighlighted.
C7_CellErrorsNeverAbort ==
    /\ error \notin {"AttributeError", "TypeError"}
    /\ \A a \in 1..Len(workbook) : \A b \in 1..Len(workbook[a].rows) :
          Analyzed(a, b) =>
              /\ MalformedTime(workbook[a].rows[b].time)
                    => workbook[a].rows[b].timeFill = NoFill
              /\ MalformedAlert(workbook[a].rows[b].alert)
                    => workbook[a].rows[b].alertFill = NoFill

\* "<n>s": an integer and one s
IsSeconds(cell) ==
    /\ cell.t = "str"
    /\ Len(cell.s) >= 2
    /\ cell.s[Len(cell.s)] = "s"
    /\ ParseInt(SubSeq(cell.s, 1, Len(cell.s) - 1)).ok

Seconds(cell) == ParseInt(SubSeq(cell.s, 1, Len(cell.s) - 1)).value

Exceeds(a, b) ==
    /\ IsSeconds(workbook[a].rows[b].time)
    /\ Seconds(workbook[a].rows[b].time) >= threshold

\* C8: of the rows analysed whose processing-time cell is "<n>s", the cell is
\* highlighted exactly when n >= threshold, the sheet of such a row is in the
\* threshold-exceeded set, and a sheet is in that set only for such a row.
C8_HighlightIffAtLeastThreshold ==
    /\ \A a \in 1..Len(workbook) : \A b \in 1..Len(workbook[a].rows) :
          (Analyzed(a, b) /\ IsSeconds(workbook[a].rows[b].time)) =>
              /\ workbook[a].rows[b].timeFill # NoFill <=> Exceeds(a, b)
              /\ Exceeds(a, b) =>
                    workbook[a].title \in hosts_with_threshold_exceedance
    /\ \A a \in 1..Len(workbook) :
          workbook[a].title \in hosts_with_threshold_exceedance =>
              \E b \in 1..Len(workbook[a].rows) : Analyzed(a, b) /\ Exceeds(a, b)

(***************************************************************************)
(* Reordering of a workbook                                                *)
(***************************************************************************)
OTHER_COLOR == <<"F","F","F","F","0","0","0","0">>

TabColors == {NoColor, YELLOW_WITH_TRANSPARENT, GRAY_WITH_TRANSPARENT, OTHER_COLOR}

\* Sheet number n of the workbook to reorder is titled t<n>.
OrderTitle(n) == <<"t", DecimalDigits[n + 1]>>

OriginalIndex(title) == DigitValue(title[2])

OrderWorkbooks ==
    UNION {{[n \in 1..len |->
                [title |-> OrderTitle(n), tabColor |-> colors[n], kind |-> "data",
                 rows |-> <<>>, complete |-> TRUE]] :
              colors \in SeqsOfLen(TabColors, len)} : len \in 0..MaxSheets}

InitReorder ==
    /\ pc = "highlighted"
    /\ workbook \in OrderWorkbooks
    /\ error = "none"
    /\ IdleConsolidator
    /\ IdleAnalyzer
    /\ IdleOrder
    /\ IdleColor
    /\ IdleMain

NextReorder ==
    \/ CreateNewOrder
    \/ MoveNextSheet
    \/ FinishReorder

SpecReorder == InitReorder /\ [][NextReorder]_vars

ColorRank(color) ==
    IF color = YELLOW_WITH_TRANSPARENT THEN 0
    ELSE IF color = NoColor THEN 1 ELSE 2

AllTagged ==
    \A n \in 1..Len(workbook) :
        workbook[n].tabColor \in {NoColor, YELLOW_WITH_TRANSPARENT, GRAY_WITH_TRANSPARENT}

\* C1: after the reorder of a workbook whose tabs are yellow, gray or
\* uncoloured the sheets are the yellow ones, then the uncoloured ones, then
\* the gray ones, and two sheets of one colour are in the order they had
\* before.
C1_YellowNoneGray ==
    (pc = "reordered" /\ AllTagged) =>
        \A a, b \in 1..Len(workbook) :
            a < b =>
                /\ ColorRank(workbook[a].tabColor) <= ColorRank(workbook[b].tabColor)
                /\ workbook[a].tabColor = workbook[b].tabColor =>
                      OriginalIndex(workbook[a].title) < OriginalIndex(workbook[b].title)

\* gray, yellow1, none, yellow2 has become yellow1, yellow2, none, gray
C1_Witness ==
    /\ pc = "reordered"
    /\ Len(workbook) = 4
    /\ [n \in 1..4 |-> workbook[n].title]
          = <<OrderTitle(2), OrderTitle(4), OrderTitle(3), OrderTitle(1)>>
    /\ [n \in 1..4 |-> workbook[n].tabColor]
          = <<YELLOW_WITH_TRANSPARENT, YELLOW_WITH_TRANSPARENT, NoColor,
              GRAY_WITH_TRANSPARENT>>

(***************************************************************************)
(* Calls of _calculate_color_based_on_excess_ratio                         *)
(***************************************************************************)
MaxNegThreshold == 2      \* colour calls take thresholds down to -MaxNegThreshold

Abs(n) == IF n < 0 THEN -n ELSE n

\* The caller passes a processing time that is at least the threshold.
ColorCalls ==
    UNION {{<<value, thr>> : value \in thr..(MaxFactor * Abs(thr) + 1)} :
              thr \in (-MaxNegThreshold)..MaxThreshold}

IdleWorkbook == workbook = <<>> /\ error = "none"

InitColor ==
    /\ pc = "color"
    /\ color_args \in ColorCalls
    /\ color_out = [raised |-> "none", code |-> <<>>]
    /\ IdleWorkbook
    /\ IdleConsolidator
    /\ IdleAnalyzer
    /\ IdleOrder
    /\ IdleMain

CallCalculateColor ==
    /\ pc = "color"
    /\ color_out' = CalculateColor(color_args[1], color_args[2])
    /\ pc' = "colored"
    /\ UNCHANGED <<color_args, workbook, error, consVars, anaVars, orderVars, mainVars>>

NextColor == CallCalculateColor

SpecColor == InitColor /\ [][NextColor]_vars

ColorValue == color_args[1]
ColorThreshold == color_args[2]

\* The three channels of a six-digit colour code.
RedOf(code) == SubSeq(code, 1, 2)
GreenOf(code) == SubSeq(code, 3, 4)
BlueOf(code) == SubSeq(code, 5, 6)

\* C9: for a threshold t >= 1 the colour of the value t has the green
\* channel 255, and every value of at least 2 * t gets the colour of 2 * t.
C9_ColorClamp ==
    (pc = "colored" /\ ColorThreshold >= 1) =>
        /\ color_out.raised = "none"
        /\ Len(color_out.code) = 6
        /\ ColorValue = ColorThreshold => HexValue(GreenOf(color_out.code)) = 255
        /\ ColorValue >= 2 * ColorThreshold =>
              color_out.code = CalculateColor(2 * ColorThreshold, ColorThreshold).code

C9_Witness ==
    /\ pc = "colored"
    /\ color_args = <<40, 4>>
    /\ color_out.code = <<"F","F","7","F","7","F">>

\* min((value - threshold) / threshold, 1) as a fraction, for threshold >= 1
ExcessNumerator ==
    IF ColorValue - ColorThreshold < ColorThreshold
    THEN ColorValue - ColorThreshold ELSE ColorThreshold

InColorRange == pc = "colored" /\ ColorValue >= ColorThreshold /\ ColorThreshold >= 1

\* C10 as claimed: for value >= threshold >= 1 the colour is FF<gg>7F with
\* the green channel 255 - 127 * excessRatio cut to an integer.
C10_GreenIs255Minus127Ratio ==
    InColorRange =>
        /\ Len(color_out.code) = 6
        /\ RedOf(color_out.code) = <<"F","F">>
        /\ BlueOf(color_out.code) = <<"7","F">>
        /\ HexValue(GreenOf(color_out.code))
              = (255 * ColorThreshold - 127 * ExcessNumerator) \div ColorThreshold

\* C10 as amended: the green channel is 255 - 127.5 * excessRatio cut to an
\* integer, which is 127 (7F) and not 128 from twice the threshold on.
C10_GreenIs255Minus127AndHalfRatio ==
    InColorRange =>
        /\ Len(color_out.code) = 6
        /\ RedOf(color_out.code) = <<"F","F">>
        /\ BlueOf(color_out.code) = <<"7","F">>
        /\ HexValue(GreenOf(color_out.code))
              = (510 * ColorThreshold - 255 * ExcessNumerator) \div (2 * ColorThreshold)

C10_Witness ==
    /\ pc = "colored"
    /\ color_args = <<5, 4>>
    /\ color_out.code = <<"F","F","D","F","7","F">>

(***************************************************************************)
(* DateHandler (consolidate_csvs_to_excel_by_date.py)                      *)
(***************************************************************************)
DATE_DELIMITER == "~"

DATE_LENGTH == 8

\* A date is <<year, month, day>>.
IsLeap(y) == (y % 4 = 0 /\ y % 100 # 0) \/ y % 400 = 0

DaysInMonth(y, m) ==
    IF m = 2 THEN (IF IsLeap(y) THEN 29 ELSE 28)
    ELSE IF m \in {4, 6, 9, 11} THEN 30 ELSE 31

\* date comparison of datetime
DateLess(a, b) ==
    \/ a[1] < b[1]
    \/ a[1] = b[1] /\ a[2] < b[2]
    \/ a[1] = b[1] /\ a[2] = b[2] /\ a[3] < b[3]

\* date + datetime.timedelta(days=1)
NextDay(date) ==
    IF date[3] < DaysInMonth(date[1], date[2]) THEN <<date[1], date[2], date[3] + 1>>
    ELSE IF date[2] < 12 THEN <<date[1], date[2] + 1, 1>>
    ELSE <<date[1] + 1, 1, 1>>

\* date - datetime.timedelta(days=1)
PrevDay(date) ==
    IF date[3] > 1 THEN <<date[1], date[2], date[3] - 1>>
    ELSE IF date[2] > 1 THEN <<date[1], date[2] - 1, DaysInMonth(date[1], date[2] - 1)>>
    ELSE <<date[1] - 1, 12, 31>>

RECURSIVE DecimalText(_)
\* str(n) for n >= 0
DecimalText(n) ==
    IF n < 10 THEN <<DecimalDigits[n + 1]>>
    ELSE DecimalText(n \div 10) \o <<DecimalDigits[(n % 10) + 1]>>

RECURSIVE ZeroPadded(_, _)
ZeroPadded(text, width) ==
    IF Len(text) >= width THEN text ELSE ZeroPadded(<<"0">> \o text, width)

\* date.strftime("%Y%m%d"): month and day have two digits; the C library
\* decides whether a year below 1000 is padded to four digits (pads_year)
\* or written as it is.
FormatDate(date, pads_year) ==
    (IF pads_year THEN ZeroPadded(DecimalText(date[1]), 4) ELSE DecimalText(date[1]))
    \o ZeroPadded(DecimalText(date[2]), 2)
    \o ZeroPadded(DecimalText(date[3]), 2)

\* str.isdigit for the characters of the model
IsDigits(text) == text # <<>> /\ \A n \in 1..Len(text) : IsDigit(text[n])

\* _parse_date: eight digits, a date strptime accepts under %Y%m%d (year at
\* least 1, a month, a day of that month), and not after now.
ParseDate(text, now) ==
    IF Len(text) # DATE_LENGTH \/ ~IsDigits(text)
    THEN [raised |-> "ValueError", date |-> <<>>]
    ELSE LET y == DigitsValue(SubSeq(text, 1, 4))
             m == DigitsValue(SubSeq(text, 5, 6))
             dd == DigitsValue(SubSeq(text, 7, 8))
         IN  IF y < 1 \/ m \notin 1..12 \/ dd < 1 \/ dd > DaysInMonth(y, m)
             THEN [raised |-> "ValueError", date |-> <<>>]
             ELSE IF DateLess(now, <<y, m, dd>>)
             THEN [raised |-> "ValueError", date |-> <<>>]
             ELSE [raised |-> "none", date |-> <<y, m, dd>>]

RECURSIVE DayWalk(_, _, _)
\* the while loop of _generate_date_range
DayWalk(current_date, end_date, pads_year) ==
    IF DateLess(end_date, current_date) THEN <<>>
    ELSE <<FormatDate(current_date, pads_year)>>
         \o DayWalk(NextDay(current_date), end_date, pads_year)

\* _generate_date_range: the ends are swapped when start is after end
GenerateDateRange(start_date, end_date, pads_year) ==
    IF DateLess(end_date, start_date)
    THEN DayWalk(end_date, start_date, pads_year)
    ELSE DayWalk(start_date, end_date, pads_year)

RECURSIVE Split(_, _)
\* str.split(c)
Split(text, c) ==
    IF \A n \in 1..Len(text) : text[n] # c THEN <<text>>
    ELSE LET at == CHOOSE n \in 1..Len(text) :
                       text[n] = c /\ \A m \in 1..(n - 1) : text[m] # c
         IN  <<SubSeq(text, 1, at - 1)>> \o Split(SubSeq(text, at + 1, Len(text)), c)

NoArgument == [given |-> FALSE, text |-> <<>>]

Argument(text) == [given |-> TRUE, text |-> text]

DateResult(raised, dates) == [raised |-> raised, dates |-> dates]

\* get_date_range_or_yesterday on sys.argv[1]: unpacking a split that has
\* not two parts is a ValueError as well.
GetDateRangeOrYesterday(arg, now, pads_year) ==
    IF ~arg.given THEN DateResult("none", <<FormatDate(PrevDay(now), pads_year)>>)
    ELSE IF \E n \in 1..Len(arg.text) : arg.text[n] = DATE_DELIMITER
    THEN LET parts == Split(arg.text, DATE_DELIMITER)
         IN  IF Len(parts) # 2 THEN DateResult("ValueError", <<>>)
             ELSE LET start_date == ParseDate(parts[1], now)
                      end_date == ParseDate(parts[2], now)
                  IN  IF start_date.raised # "none" \/ end_date.raised # "none"
                      THEN DateResult("ValueError", <<>>)
                      ELSE DateResult("none", GenerateDateRange(start_date.date,
                                                               end_date.date, pads_year))
    ELSE LET date == ParseDate(arg.text, now)
         IN  IF date.raised # "none" THEN DateResult("ValueError", <<>>)
             ELSE DateResult("none", <<FormatDate(date.date, pads_year)>>)

(***************************************************************************)
(* Date arguments given to get_date_range_or_yesterday                     *)
(***************************************************************************)
MaxDayOffset == 3

RECURSIVE DaysAfter(_, _)
DaysAfter(date, n) == IF n = 0 THEN date ELSE DaysAfter(NextDay(date), n - 1)

\* first days of the windows the dates of an argument are taken from: the
\* end of a leap February, of a year, of the year 999, of the February of
\* 1900 and of 2000
WindowStarts ==
    {<<1988, 2, 27>>, <<1987, 12, 29>>, <<999, 12, 29>>, <<1900, 2, 27>>, <<2000, 2, 27>>}

Window(start) == {DaysAfter(start, n) : n \in 0..MaxDayOffset}

\* YYYYMMDD as typed on the command line
Typed(date) ==
    ZeroPadded(DecimalText(date[1]), 4)
    \o ZeroPadded(DecimalText(date[2]), 2)
    \o ZeroPadded(DecimalText(date[3]), 2)

\* parts no date can be read from
BadParts ==
    {<<>>,
     <<"1","9","8","8","0","2","9">>,
     <<"1","9","8","8","-","0","2","-","0","9">>,
     <<"1","9","8","8","0","2","0","a">>,
     <<"1","9","8","8","0","2","3","0">>,
     <<"1","9","8","8","1","3","0","1">>,
     <<"0","0","0","0","0","1","0","1">>}

RangeText(a, b) == a \o <<DATE_DELIMITER>> \o b

DateArguments ==
    {NoArgument}
    \cup {Argument(part) : part \in BadParts}
    \cup UNION {{Argument(Typed(a)) : a \in Window(w)} : w \in WindowStarts}
    \cup UNION {{Argument(RangeText(Typed(a), Typed(b))) : a, b \in Window(w)} :
                    w \in WindowStarts}
    \cup {Argument(RangeText(Typed(<<1988, 2, 27>>), part)) : part \in BadParts}
    \cup {Argument(RangeText(part, Typed(<<1988, 2, 27>>))) : part \in BadParts}
    \cup {Argument(RangeText(RangeText(Typed(a), Typed(a)), Typed(a))) :
             a \in Window(<<1988, 2, 27>>)}

\* the days datetime.now() falls on
Nows == {<<1988, 3, 1>>, <<2000, 3, 2>>}

InitDate ==
    /\ pc = "dates"
    /\ argv_date \in DateArguments
    /\ clock_now \in Nows
    /\ libc_pads_year \in BOOLEAN
    /\ date_range = <<>>
    /\ target_prefixes = <<>>
    /\ config_threshold = [valid |-> TRUE, value |-> 1]
    /\ config_file = "ok"
    /\ files = <<>>
    /\ target_folders = <<>>
    /\ target_fullnames = <<>>
    /\ named_prefix = <<>>
    /\ csv_by_date = <<>>
    /\ date_index = 1
    /\ prefix_index = 1
    /\ daily_summaries = <<>>
    /\ daily_processing_results = <<>>
    /\ summary_calls = <<>>
    /\ opened = <<>>
    /\ saved = <<>>
    /\ summary_log = <<>>
    /\ exit_status = "running"
    /\ workbook = <<>>
    /\ error = "none"
    /\ IdleConsolidator
    /\ IdleAnalyzer
    /\ IdleOrder
    /\ IdleColor

\* date_range = DateHandler.get_date_range_or_yesterday()
CallGetDateRangeOrYesterday ==
    /\ pc = "dates"
    /\ LET result == GetDateRangeOrYesterday(argv_date, clock_now, libc_pads_year)
       IN  /\ date_range' = result.dates
           /\ error' = result.raised
    /\ pc' = "dated"
    /\ UNCHANGED <<workbook, consVars, anaVars, orderVars, colorVars,
                   argv_date, clock_now, libc_pads_year, target_prefixes, config_threshold,
                   config_file, files, target_folders, loopVars, sumVars, outVars>>

NextDate == CallGetDateRangeOrYesterday

SpecDate == InitDate /\ [][NextDate]_vars

(***************************************************************************)
(* main of consolidate_csvs_to_excel_by_date.py                            *)
(***************************************************************************)
\* str.startswith
StartsWith(text, prefix) ==
    /\ Len(prefix) <= Len(text)
    /\ SubSeq(text, 1, Len(prefix)) = prefix

RECURSIVE GetTargetFullnamesFirstMatch(_, _)
\* variant of get_target_fullnames that keeps the first folder of each prefix
GetTargetFullnamesFirstMatch(prefixes, folders) ==
    IF prefixes = <<>> THEN [raised |-> "none", names |-> <<>>, named |-> <<>>]
    ELSE LET matched == SelectSeq(folders, LAMBDA f : StartsWith(f, Head(prefixes)))
             rest == GetTargetFullnamesFirstMatch(Tail(prefixes), folders)
         IN  IF matched = <<>>
             THEN [raised |-> "ValueError", names |-> <<>>,
                   named |-> <<Head(prefixes)>>]
             ELSE IF rest.raised # "none" THEN rest
             ELSE [raised |-> "none", names |-> <<Head(matched)>> \o rest.names,
                   named |-> <<>>]

RECURSIVE GetTargetFullnamesSkippingUnmatched(_, _)
\* variant of get_target_fullnames that passes over a prefix without folder
GetTargetFullnamesSkippingUnmatched(prefixes, folders) ==
    IF prefixes = <<>> THEN [raised |-> "none", names |-> <<>>, named |-> <<>>]
    ELSE LET matched == SelectSeq(folders, LAMBDA f : StartsWith(f, Head(prefixes)))
             rest == GetTargetFullnamesSkippingUnmatched(Tail(prefixes), folders)
         IN  [raised |-> "none", names |-> matched \o rest.names, named |-> <<>>]

RECURSIVE GetTargetFullnames(_, _)
\* TargetHandler.get_target_fullnames: the folders each prefix matches, prefix
\* by prefix; a prefix that matches no folder raises ValueError.
GetTargetFullnames(prefixes, folders) ==
    IF prefixes = <<>> THEN [raised |-> "none", names |-> <<>>, named |-> <<>>]
    ELSE LET matched == SelectSeq(folders, LAMBDA f : StartsWith(f, Head(prefixes)))
             rest == GetTargetFullnames(Tail(prefixes), folders)
         IN  IF matched = <<>>
             THEN [raised |-> "ValueError", names |-> <<>>,
                   named |-> <<Head(prefixes)>>]
             ELSE IF rest.raised # "none" THEN rest
             ELSE [raised |-> "none", names |-> matched \o rest.names,
                   named |-> <<>>]

RECURSIVE DictKeys(_)
\* the keys of a dict built from a list: each once, in order of first use
DictKeys(names) ==
    IF names = <<>> THEN <<>>
    ELSE LET front == DictKeys(SubSeq(names, 1, Len(names) - 1))
             last == names[Len(names)]
         IN  IF \E n \in 1..Len(front) : front[n] = last
             THEN front ELSE Append(front, last)

\* CSVPathMapper.get_targets_and_csv_path_by_dates for one date: each target
\* with the file get_csv_path finds for it, or None.
CsvPathsOf(date, fullnames, fs) ==
    LET keys == DictKeys(fullnames)
    IN  [n \in 1..Len(keys) |-> Unit(keys[n], fs[<<date, keys[n]>>])]

\* all(csv_path is None for csv_path in targets_and_csv_path.values())
AllNone(us) == \A n \in 1..Len(us) : us[n].src.kind = "none"

\* variant of the list of missing targets that names every target
EveryTarget(us) == {us[n].name : n \in 1..Len(us)}

\* the targets of a unit map that have no CSV
MissingTargets(us) == {us[n].name : n \in {m \in 1..Len(us) : us[m].src.kind = "none"}}

SummaryItem(kind, hosts) == [kind |-> kind, hosts |-> hosts]

RECURSIVE AddMissingCsvInfo(_, _, _)
\* ProcessingSummary.add_missing_csv_info, over dates n..Len(dates)
AddMissingCsvInfo(dates, maps, n) ==
    IF n > Len(dates) THEN <<>>
    ELSE LET rest == AddMissingCsvInfo(dates, maps, n + 1)
         IN  IF AllNone(maps[n])
             THEN (dates[n] :> <<SummaryItem("No CSV files found.", {})>>) @@ rest
             ELSE IF MissingTargets(maps[n]) # {}
             THEN (dates[n] :> <<SummaryItem("Partial data loss, missing hosts",
                                             MissingTargets(maps[n]))>>) @@ rest
             ELSE rest

\* one call of save_daily_processing_results: its key and the three sets the
\* consolidator and the analyzer of a workbook hand over
SummaryCall(key, failed, exceeded, anomalous) ==
    [key |-> key, merge_failed_hosts |-> failed,
     hosts_with_threshold_exceedance |-> exceeded,
     hosts_with_anomaly_value |-> anomalous]

\* variant of save_daily_processing_results that stores the sets of the
\* call in place of the sets recorded so far
SaveDailyProcessingResultsOverwriting(results, date, failed, exceeded, anomalous) ==
    (date :> [merge_failed_hosts |-> failed,
              hosts_with_threshold_exceedance |-> exceeded,
              hosts_with_anomaly_value |-> anomalous])
    @@ results

\* ProcessingSummary.save_daily_processing_results: setdefault, then the
\* three set.update calls
SaveDailyProcessingResults(results, date, failed, exceeded, anomalous) ==
    LET old == IF date \in DOMAIN results THEN results[date]
               ELSE [merge_failed_hosts |-> {},
                     hosts_with_threshold_exceedance |-> {},
                     hosts_with_anomaly_value |-> {}]
    IN  (date :> [merge_failed_hosts |-> old.merge_failed_hosts \cup failed,
                  hosts_with_threshold_exceedance |->
                      old.hosts_with_threshold_exceedance \cup exceeded,
                  hosts_with_anomaly_value |->
                      old.hosts_with_anomaly_value \cup anomalous])
        @@ results

\* day_summary of _summarize_daily_processing_results
DaySummary(summary) ==
    (IF summary.hosts_with_threshold_exceedance # {}
     THEN <<SummaryItem("Exceeded threshold detected for hosts",
                        summary.hosts_with_threshold_exceedance)>>
     ELSE <<>>)
    \o (IF summary.hosts_with_anomaly_value # {}
        THEN <<SummaryItem("Anomaly value detected for hosts",
                           summary.hosts_with_anomaly_value)>>
        ELSE <<>>)
    \o (IF summary.merge_failed_hosts # {}
        THEN <<SummaryItem("Merge failed hosts", summary.merge_failed_hosts)>>
        ELSE <<>>)

\* ProcessingSummary._summarize_daily_processing_results
SummarizeDailyProcessingResults(summaries, results) ==
    [date \in DOMAIN summaries \cup DOMAIN results |->
        (IF date \in DOMAIN summaries THEN summaries[date] ELSE <<>>)
        \o (IF date \in DOMAIN results THEN DaySummary(results[date]) ELSE <<>>)]

RECURSIVE TextLeq(_, _)
\* a <= b of two str: by the first character that differs, a prefix first
TextLeq(a, b) ==
    IF a = <<>> THEN TRUE
    ELSE IF b = <<>> THEN FALSE
    ELSE IF Head(a) = Head(b) THEN TextLeq(Tail(a), Tail(b))
    ELSE \E m, n \in 1..Len(HexDigits) :
            HexDigits[m] = Head(a) /\ HexDigits[n] = Head(b) /\ m < n

RECURSIVE Sorted(_)
\* sorted(keys)
Sorted(S) ==
    IF S = {} THEN <<>>
    ELSE LET least == CHOOSE x \in S : \A y \in S : TextLeq(x, y)
         IN  <<least>> \o Sorted(S \ {least})

\* variant of log_daily_summaries that passes over a date without item
LogBlocksOmittingEmpty(summaries) ==
    LET keys == SelectSeq(Sorted(DOMAIN summaries), LAMBDA key : summaries[key] # <<>>)
    IN  [n \in 1..Len(keys) |-> [date |-> keys[n], items |-> summaries[keys[n]]]]

\* the blocks log_daily_summaries logs, one per date in ascending order
LogBlocks(summaries) ==
    LET keys == Sorted(DOMAIN summaries)
    IN  [n \in 1..Len(keys) |->
            [date |-> keys[n],
             items |-> IF summaries[keys[n]] = <<>>
                       THEN <<SummaryItem("No anomalies detected.", {})>>
                       ELSE summaries[keys[n]]]]

\* os.listdir of the log directory
TargetFolders == <<<<"h","1">>, <<"h","2">>>>

\* the lists of target prefixes a run is started with
TargetPrefixLists ==
    {<<>>, <<<<"h">>>>, <<<<"h","1">>>>, <<<<"h","1">>, <<"h","2">>>>,
     <<<<"h">>, <<"h","1">>>>, <<<<"h","1">>, <<"h","1">>>>, <<<<"x">>>>,
     <<<<"h","1">>, <<"x">>>>}

\* the dates the runs of main are about
Dates == <<Typed(<<1988, 2, 9>>), Typed(<<1988, 2, 10>>)>>

\* sys.argv[1] of a run: absent, a date, a range, or a text that is no date
MainArguments ==
    {NoArgument, Argument(Dates[1]), Argument(RangeText(Dates[1], Dates[2])),
     Argument(<<"1", "9", "8", "8">>)}

\* the day of the runs: the day after the last of Dates
MainNow == <<1988, 2, 11>>

\* loading the config file: a mapping, no file, text that is no YAML, or an
\* empty file (yaml.safe_load gives None)
ConfigFiles == {"ok", "missing", "malformed", "empty"}

\* the exception of ConfigLoader.get when the config has to be loaded
ConfigLoadError(file) ==
    CASE file = "ok" -> "none"
      [] file = "missing" -> "FileNotFoundError"
      [] file = "malformed" -> "YAMLError"
      [] file = "empty" -> "AttributeError"

\* processing_time_threshold_seconds of the config: an int, or something else
ConfigThresholds ==
    {[valid |-> TRUE, value |-> 4], [valid |-> TRUE, value |-> 0],
     [valid |-> FALSE, value |-> 0]}

\* the CSV of a folder on a date: none, unreadable, or a one-row table
SlowTable ==
    Table(<<Row(StrCell(<<"5","s">>), AlertStr(JArray(<<"obj_false">>)))>>, NoFail)

AlertTable ==
    Table(<<Row(StrCell(<<"3","s">>), AlertStr(JArray(<<"obj_true">>)))>>, NoFail)

ObjectAlertTable ==
    Table(<<Row(StrCell(<<"3","s">>), AlertStr(JObject))>>, NoFail)

MainSources == {NoCsv, ReadFail, SlowTable, AlertTable, ObjectAlertTable}

RangeOf(q) == {q[n] : n \in 1..Len(q)}

\* except Exception: logger.error(...); sys.exit(1)
ExitOnException(name) ==
    /\ error' = name
    /\ exit_status' = "1"
    /\ pc' = "exited"

\* Variant: the last step before the loop, the read of the threshold, is not
\* looked at.
FirstRaisedBeforeThreshold(steps) ==
    LET early == SubSeq(steps, 1, Len(steps) - 1)
    IN  IF \A n \in 1..Len(early) : early[n] = "none" THEN "none"
        ELSE early[CHOOSE n \in 1..Len(early) :
                       /\ early[n] # "none"
                       /\ \A m \in 1..(n - 1) : early[m] = "none"]

\* the first of the exceptions of main's steps before the loop, in the order
\* of the steps, or "none"
FirstRaised(steps) ==
    IF \A n \in 1..Len(steps) : steps[n] = "none" THEN "none"
    ELSE steps[CHOOSE n \in 1..Len(steps) :
                   /\ steps[n] # "none"
                   /\ \A m \in 1..(n - 1) : steps[m] = "none"]

\* main up to the loop: date range, target prefixes (from sys.argv[2], or
\* from the config file, which is loaded at its first use), targets, CSV
\* paths, threshold, missing-CSV summary
MainSetup ==
    /\ pc = "main"
    /\ \E from_argv \in BOOLEAN :
          LET dates == GetDateRangeOrYesterday(argv_date, clock_now, libc_pads_year)
              fullnames == GetTargetFullnames(target_prefixes, target_folders)
              maps == [n \in 1..Len(dates.dates) |->
                          CsvPathsOf(dates.dates[n], fullnames.names, files)]
              raised == FirstRaised(<<
                  dates.raised,
                  IF from_argv THEN "none" ELSE ConfigLoadError(config_file),
                  fullnames.raised,
                  ConfigLoadError(config_file),
                  IF config_threshold.valid THEN "none" ELSE "ValueError">>)
          IN  /\ date_range' = dates.dates
              /\ named_prefix' = IF raised = "ValueError" /\ dates.raised = "none"
                                 THEN fullnames.named ELSE <<>>
              /\ IF raised # "none"
                 THEN /\ ExitOnException(raised)
                      /\ UNCHANGED <<target_fullnames, csv_by_date, daily_summaries>>
                 ELSE /\ target_fullnames' = fullnames.names
                      /\ csv_by_date' = maps
                      /\ daily_summaries' = AddMissingCsvInfo(dates.dates, maps, 1)
                      /\ pc' = "main_date"
                      /\ UNCHANGED <<error, exit_status>>
    /\ UNCHANGED <<workbook, consVars, anaVars, orderVars, colorVars,
                   argv_date, clock_now, libc_pads_year, target_prefixes,
                   config_threshold, config_file, files, target_folders,
                   date_index, prefix_index, daily_processing_results,
                   summary_calls,
                   summary_log, opened, saved>>

MainSkipDate ==
    /\ pc = "main_date"
    /\ date_index <= Len(date_range)
    /\ AllNone(csv_by_date[date_index])
    /\ date_index' = date_index + 1
    /\ UNCHANGED <<pc, workbook, error, consVars, anaVars, orderVars, colorVars,
                   inputVars, target_fullnames, named_prefix, csv_by_date, prefix_index,
                   sumVars, outVars>>

MainEnterDate ==
    /\ pc = "main_date"
    /\ date_index <= Len(date_range)
    /\ ~AllNone(csv_by_date[date_index])
    /\ prefix_index' = 1
    /\ pc' = "main_prefix"
    /\ UNCHANGED <<workbook, error, consVars, anaVars, orderVars, colorVars,
                   inputVars, target_fullnames, named_prefix, csv_by_date, date_index,
                   sumVars, outVars>>

\* extracted_targets_and_csv_path of the current date and prefix
ExtractedTargets ==
    SelectSeq(csv_by_date[date_index],
              LAMBDA u : StartsWith(u.name, target_prefixes[prefix_index]))

\* a prefix none of whose targets has a CSV on the date is skipped
MainSkipPrefix ==
    /\ pc = "main_prefix"
    /\ prefix_index <= Len(target_prefixes)
    /\ AllNone(ExtractedTargets)
    /\ prefix_index' = prefix_index + 1
    /\ UNCHANGED <<pc, workbook, error, consVars, anaVars, orderVars, colorVars,
                   inputVars, target_fullnames, named_prefix, csv_by_date, date_index,
                   sumVars, outVars>>

\* FileUtility.create_excel_path: the directory of the date and, in it, the
\* file f"{date}_{suffix}.xlsx"
CreateExcelPath(date, suffix) ==
    [directory |-> date,
     name |-> date \o <<"_">> \o suffix \o <<".", "x", "l", "s", "x">>]

\* pd.ExcelWriter(excel_path, mode="w") and CSVConsolidator(writer, workbook):
\* the file is opened and the workbook starts without a sheet
MainOpenWorkbook ==
    /\ pc = "main_prefix"
    /\ prefix_index <= Len(target_prefixes)
    /\ ~AllNone(ExtractedTargets)
    /\ opened' = Append(opened, <<date_range[date_index], target_prefixes[prefix_index]>>)
    /\ workbook' = <<>>
    /\ units' = ExtractedTargets
    /\ merge_failed_hosts' = {}
    /\ i' = 1
    /\ pc' = "consolidate"
    /\ UNCHANGED <<variant, counts, absent_deletes, error, anaVars, orderVars,
                   colorVars, inputVars, loopVars, sumVars, saved, exit_status>>

MainNextDate ==
    /\ pc = "main_prefix"
    /\ prefix_index > Len(target_prefixes)
    /\ date_index' = date_index + 1
    /\ pc' = "main_date"
    /\ UNCHANGED <<workbook, error, consVars, anaVars, orderVars, colorVars,
                   inputVars, target_fullnames, named_prefix, csv_by_date, prefix_index,
                   sumVars, outVars>>

\* ExcelAnalyzer(workbook) and the call of
\* highlight_cells_and_sheet_tab_by_criteria(processing_time_threshold)
NewExcelAnalyzer ==
    /\ pc = "consolidated"
    /\ threshold' = config_threshold.value
    /\ s' = 1
    /\ r' = 1
    /\ has_highlighted_cell' = FALSE
    /\ hosts_with_threshold_exceedance' = {}
    /\ hosts_with_anomaly_value' = {}
    /\ pc' = "highlight"
    /\ UNCHANGED <<workbook, error, consVars, orderVars, colorVars, mainVars>>

SavedWorkbook == [date |-> date_range[date_index],
                  prefix |-> target_prefixes[prefix_index],
                  sheets |-> workbook]

\* The with block ends: the writer saves the workbook, which raises
\* IndexError when no sheet is left in it; then
\* save_daily_processing_results.
SaveWorkbook ==
    /\ pc = "reordered"
    /\ IF workbook = <<>>
       THEN /\ ExitOnException("IndexError")
            /\ UNCHANGED <<saved, daily_processing_results, summary_calls,
                           prefix_index>>
       ELSE /\ saved' = Append(saved, SavedWorkbook)
            /\ daily_processing_results' =
                   SaveDailyProcessingResults(daily_processing_results,
                       date_range[date_index], merge_failed_hosts,
                       hosts_with_threshold_exceedance, hosts_with_anomaly_value)
            /\ summary_calls' =
                   Append(summary_calls,
                          SummaryCall(date_range[date_index], merge_failed_hosts,
                              hosts_with_threshold_exceedance,
                              hosts_with_anomaly_value))
            /\ prefix_index' = prefix_index + 1
            /\ pc' = "main_prefix"
            /\ UNCHANGED <<error, exit_status>>
    /\ UNCHANGED <<workbook, consVars, anaVars, orderVars, colorVars, inputVars,
                   target_fullnames, named_prefix, csv_by_date, date_index,
                   daily_summaries,
                   summary_log, opened>>

\* An exception leaves the with block: the writer still saves the workbook
\* as it is, and main's except clause ends the process.
MainFail ==
    /\ pc = "raised"
    /\ saved' = IF workbook = <<>> THEN saved ELSE Append(saved, SavedWorkbook)
    /\ exit_status' = "1"
    /\ pc' = "exited"
    /\ UNCHANGED <<workbook, error, consVars, anaVars, orderVars, colorVars,
                   inputVars, loopVars, sumVars, opened>>

\* processing_summary.log_daily_summaries() and the normal end of main
LogDailySummaries ==
    /\ pc = "main_date"
    /\ date_index > Len(date_range)
    /\ daily_summaries' =
           SummarizeDailyProcessingResults(daily_summaries, daily_processing_results)
    /\ summary_log' = LogBlocks(daily_summaries')
    /\ exit_status' = "0"
    /\ pc' = "exited"
    /\ UNCHANGED <<workbook, error, consVars, anaVars, orderVars, colorVars,
                   inputVars, loopVars, daily_processing_results, summary_calls,
                   opened, saved>>

Init ==
    /\ pc = "main"
    /\ argv_date \in MainArguments
    /\ clock_now = MainNow
    \* every date of these runs has a four-digit year, which strftime
    \* writes the same way with and without padding
    /\ libc_pads_year = TRUE
    /\ date_range = <<>>
    /\ target_prefixes \in TargetPrefixLists
    /\ config_file \in ConfigFiles
    /\ config_threshold \in ConfigThresholds
    \* nothing is read from a config file that does not load
    /\ config_file # "ok" => config_threshold = [valid |-> FALSE, value |-> 0]
    /\ target_folders = TargetFolders
    /\ files \in [RangeOf(Dates) \X RangeOf(target_folders) -> MainSources]
    \* the files of a date that is not asked for are never looked at
    /\ \A key \in DOMAIN files :
          key[1] \notin RangeOf(GetDateRangeOrYesterday(argv_date, clock_now,
                                                       libc_pads_year).dates)
              => files[key] = NoCsv
    /\ target_fullnames = <<>>
    /\ named_prefix = <<>>
    /\ csv_by_date = <<>>
    /\ date_index = 1
    /\ prefix_index = 1
    /\ daily_summaries = <<>>
    /\ daily_processing_results = <<>>
    /\ summary_calls = <<>>
    /\ opened = <<>>
    /\ saved = <<>>
    /\ summary_log = <<>>
    /\ exit_status = "running"
    /\ variant = "by_date"
    /\ units = <<>>
    /\ i = 1
    /\ workbook = <<>>
    /\ merge_failed_hosts = {}
    /\ counts = [copied |-> 0, no_csv |-> 0, failed |-> 0]
    /\ absent_deletes = 0
    /\ error = "none"
    /\ IdleAnalyzer
    /\ IdleOrder
    /\ IdleColor

Next ==
    \/ MainSetup
    \/ MainSkipDate
    \/ MainEnterDate
    \/ MainSkipPrefix
    \/ MainOpenWorkbook
    \/ CreateSentinelSheet
    \/ CreateSheetFromCsv
    \/ CreateNoCsvSheet
    \/ DeleteSentinelSheet
    \/ NewExcelAnalyzer
    \/ AnalyzeRow
    \/ FinishSheet
    \/ FinishHighlight
    \/ CreateNewOrder
    \/ MoveNextSheet
    \/ FinishReorder
    \/ SaveWorkbook
    \/ MainFail
    \/ MainNextDate
    \/ LogDailySummaries

Spec == Init /\ [][Next]_vars

(***************************************************************************)
(* Claims on main                                                          *)
(***************************************************************************)
\* A run whose only irregularity can be a CSV that fails to parse: every
\* prefix matches a folder, the threshold is a positive int, and every CSV
\* that parses holds well-formed cells.
\* date resolution, configuration loading, threshold validation and the
\* expansion of the target prefixes all succeed
SetupSucceeds ==
    /\ GetDateRangeOrYesterday(argv_date, clock_now, libc_pads_year).raised = "none"
    /\ config_file = "ok"
    /\ config_threshold.valid
    /\ GetTargetFullnames(target_prefixes, target_folders).raised = "none"

OnlyIngestionFailures ==
    /\ SetupSucceeds
    /\ config_threshold.value >= 1
    /\ \A key \in DOMAIN files : files[key] \in {NoCsv, ReadFail, SlowTable, AlertTable}

\* C6: CSV ingestion failures never abort the run.  When CSVs that fail to
\* parse are the only irregularity of a run, whichever units of a workbook
\* they hit (all of those with a CSV included), main saves every workbook it
\* opened, logs the summary and exits with status zero.
C6_IngestionFailuresNeverAbort ==
    (pc = "exited" /\ OnlyIngestionFailures)
        => /\ exit_status = "0"
           /\ error = "none"
           /\ Len(saved) = Len(opened)
           /\ Len(summary_log) = Len(date_range)

(***************************************************************************)
(* Claims on the analysis: the anomaly check and the sheet tabs            *)
(***************************************************************************)
\* the alert-detail cell is a JSON array holding an object whose random_key
\* is true
ContainsTrueObject(cell) ==
    /\ cell.t = "str"
    /\ cell.json.k = "array"
    /\ \E n \in 1..Len(cell.json.items) : cell.json.items[n] = "obj_true"

\* C11: of the rows the analysis has been through, a row whose alert-detail
\* array holds an object with random_key true has that cell highlighted and
\* its sheet in the anomaly set, whatever its processing-time cell holds,
\* and when its processing time is also at least the threshold the time
\* cell is highlighted and the sheet is in the threshold-exceeded set too.
C11_AnomalyCheckIndependent ==
    \A a \in 1..Len(workbook) : \A b \in 1..Len(workbook[a].rows) :
        (Analyzed(a, b) /\ ContainsTrueObject(workbook[a].rows[b].alert)) =>
            /\ workbook[a].rows[b].alertFill = ColorRgb(YELLOW)
            /\ workbook[a].title \in hosts_with_anomaly_value
            /\ Exceeds(a, b) =>
                  /\ workbook[a].rows[b].timeFill # NoFill
                  /\ workbook[a].title \in hosts_with_threshold_exceedance

\* a check returned True on a data row of sheet a: the cell got a fill
Fired(a) ==
    \E b \in 1..Len(workbook[a].rows) :
        \/ workbook[a].rows[b].timeFill # NoFill
        \/ workbook[a].rows[b].alertFill # NoFill

\* the tab colour the consolidator gave the sheet
TabBeforeAnalysis(sh) ==
    IF sh.kind = "placeholder" THEN ColorRgb(GRAY_WITH_TRANSPARENT) ELSE NoColor

YellowSheets ==
    {workbook[a].title : a \in {n \in 1..Len(workbook) :
        workbook[n].tabColor = ColorRgb(YELLOW_WITH_TRANSPARENT)}}

\* C12: when the analysis has returned, a sheet has a yellow tab exactly
\* when a check fired on one of its data rows, a sheet where none fired has
\* the tab colour it had before, and the yellow sheets are the union of the
\* threshold-exceeded set and the anomaly set.
C12_YellowTabIffCheckFired ==
    pc = "highlighted" =>
        /\ \A a \in 1..Len(workbook) :
              /\ workbook[a].tabColor = ColorRgb(YELLOW_WITH_TRANSPARENT) <=> Fired(a)
              /\ ~Fired(a) => workbook[a].tabColor = TabBeforeAnalysis(workbook[a])
        /\ YellowSheets = hosts_with_threshold_exceedance \cup hosts_with_anomaly_value

C12_Witness ==
    /\ pc = "highlighted"
    /\ Len(workbook) = 2
    /\ Len(workbook[1].rows) = 1
    /\ Len(workbook[2].rows) = 1
    /\ Fired(1)
    /\ ~Fired(2)
    /\ workbook[1].tabColor = ColorRgb(YELLOW_WITH_TRANSPARENT)
    /\ workbook[2].tabColor = NoColor
    /\ hosts_with_threshold_exceedance = {workbook[1].title}
    /\ hosts_with_anomaly_value = {}

(***************************************************************************)
(* Claims on DateHandler                                                   *)
(***************************************************************************)
\* an 8-digit text naming a day of the calendar
IsDateText(text) ==
    /\ Len(text) = 8
    /\ IsDigits(text)
    /\ DigitsValue(SubSeq(text, 1, 4)) >= 1
    /\ DigitsValue(SubSeq(text, 5, 6)) \in 1..12
    /\ DigitsValue(SubSeq(text, 7, 8)) \in
           1..DaysInMonth(DigitsValue(SubSeq(text, 1, 4)), DigitsValue(SubSeq(text, 5, 6)))

DateOfText(text) ==
    <<DigitsValue(SubSeq(text, 1, 4)), DigitsValue(SubSeq(text, 5, 6)),
      DigitsValue(SubSeq(text, 7, 8))>>

DaysBeforeMonth == <<0, 31, 59, 90, 120, 151, 181, 212, 243, 273, 304, 334>>

\* the number of the day, counted from 0001-01-01 as day 1
DayNumber(date) ==
    365 * (date[1] - 1) + ((date[1] - 1) \div 4) - ((date[1] - 1) \div 100)
    + ((date[1] - 1) \div 400) + DaysBeforeMonth[date[2]]
    + (IF date[2] > 2 /\ IsLeap(date[1]) THEN 1 ELSE 0) + date[3]

NotFuture(text) == ~DateLess(clock_now, DateOfText(text))

ArgumentParts == Split(argv_date.text, DATE_DELIMITER)

\* the argument is a~b with a and b valid dates not after now
IsValidRange ==
    /\ argv_date.given
    /\ Len(ArgumentParts) = 2
    /\ \A n \in 1..2 : IsDateText(ArgumentParts[n]) /\ NotFuture(ArgumentParts[n])

RangeLow ==
    IF DayNumber(DateOfText(ArgumentParts[1])) <= DayNumber(DateOfText(ArgumentParts[2]))
    THEN ArgumentParts[1] ELSE ArgumentParts[2]

RangeHigh ==
    IF DayNumber(DateOfText(ArgumentParts[1])) <= DayNumber(DateOfText(ArgumentParts[2]))
    THEN ArgumentParts[2] ELSE ArgumentParts[1]

\* C13: for an argument a~b of valid dates not after now the result is the
\* result of b~a, and it is the ascending list of the 8-digit dates of every
\* day from the earlier to the later of a and b, both included: as many
\* entries as days between them plus one, the first the earlier date, the
\* last the later date, and [a] for a~a.
C13_RangeIsSwapInvariantDayWalk ==
    (pc = "dated" /\ IsValidRange) =>
        /\ error = "none"
        /\ date_range = GetDateRangeOrYesterday(
                            Argument(RangeText(ArgumentParts[2], ArgumentParts[1])),
                            clock_now, libc_pads_year).dates
        /\ Len(date_range) = DayNumber(DateOfText(RangeHigh))
                                 - DayNumber(DateOfText(RangeLow)) + 1
        /\ \A n \in 1..Len(date_range) :
              /\ IsDateText(date_range[n])
              /\ DayNumber(DateOfText(date_range[n]))
                     = DayNumber(DateOfText(RangeLow)) + n - 1
        /\ date_range[1] = RangeLow
        /\ date_range[Len(date_range)] = RangeHigh

\* a part of the argument has a wrong length, a character that is no digit,
\* or names a date after now, or the argument has more than one delimiter
IsRejectedArgument ==
    /\ argv_date.given
    /\ \/ Len(ArgumentParts) > 2
       \/ \E n \in 1..Len(ArgumentParts) :
             \/ Len(ArgumentParts[n]) # 8
             \/ ~IsDigits(ArgumentParts[n])
             \/ IsDateText(ArgumentParts[n]) /\ ~NotFuture(ArgumentParts[n])

\* C14: get_date_range_or_yesterday raises ValueError and returns no date
\* for every such argument, and every date of a list it returns is an
\* 8-digit date not after now.
C14_BadTokenRaisesValueError ==
    pc = "dated" =>
        /\ IsRejectedArgument => (error = "ValueError" /\ date_range = <<>>)
        /\ error \in {"none", "ValueError"}
        /\ \A n \in 1..Len(date_range) :
              IsDateText(date_range[n]) /\ NotFuture(date_range[n])

(***************************************************************************)
(* Target resolution                                                       *)
(***************************************************************************)
RECURSIVE MatchedHostNames(_, _)
\* the host_fullnames list of get_existing_host_fullnames: the folders each
\* target matches, target by target; a target without folder is passed over
MatchedHostNames(targets, host_folders) ==
    IF targets = <<>> THEN <<>>
    ELSE SelectSeq(host_folders, LAMBDA f : StartsWith(f, Head(targets)))
             \o MatchedHostNames(Tail(targets), host_folders)

\* TargetHandler.get_existing_host_fullnames of consolidate_csv_to_excel.py:
\* an empty result ends the process through sys.exit(1)
GetExistingHostFullnames(targets, host_folders) ==
    IF MatchedHostNames(targets, host_folders) = <<>>
    THEN [raised |-> "SystemExit", names |-> <<>>]
    ELSE [raised |-> "none", names |-> MatchedHostNames(targets, host_folders)]

MaxFolders == 3
MaxPrefixes == 2

\* names of folders of the log root
FolderNames == {<<"h", "1", "p">>, <<"h", "2", "p">>, <<"h", "3", "p">>, <<"g">>}

\* prefixes a run may request; the empty one comes from "a,,b" or a trailing comma
PrefixTexts == {<<>>, <<"h">>, <<"h", "1">>, <<"h", "2">>, <<"h", "4">>, <<"h", "1", "p">>}

IsInjective(q) == \A a, b \in 1..Len(q) : q[a] = q[b] => a = b

\* os.listdir: the names of a directory, each once, in any order
FolderLists == {q \in SeqsUpTo(FolderNames, MaxFolders) : IsInjective(q)}

PrefixLists == SeqsUpTo(PrefixTexts, MaxPrefixes)

InitTargets ==
    /\ pc = "targets"
    /\ variant \in {"by_date", "by_host", "legacy"}
    /\ target_folders \in FolderLists
    /\ target_prefixes \in PrefixLists
    /\ units = <<>>
    /\ i = 1
    /\ workbook = <<>>
    /\ merge_failed_hosts = {}
    /\ counts = [copied |-> 0, no_csv |-> 0, failed |-> 0]
    /\ absent_deletes = 0
    /\ error = "none"
    /\ IdleAnalyzer
    /\ IdleOrder
    /\ IdleColor
    /\ argv_date = NoArgument
    /\ clock_now = <<1, 1, 2>>
    /\ libc_pads_year = TRUE
    /\ date_range = <<>>
    /\ config_threshold = [valid |-> TRUE, value |-> 1]
    /\ config_file = "ok"
    /\ files = <<>>
    /\ target_fullnames = <<>>
    /\ named_prefix = <<>>
    /\ csv_by_date = <<>>
    /\ date_index = 1
    /\ prefix_index = 1
    /\ daily_summaries = <<>>
    /\ daily_processing_results = <<>>
    /\ summary_calls = <<>>
    /\ opened = <<>>
    /\ saved = <<>>
    /\ summary_log = <<>>
    /\ exit_status = "running"

\* TargetHandler.get_target_fullnames, the same code in the by_date and the
\* by_host script
CallGetTargetFullnames ==
    /\ pc = "targets"
    /\ variant \in {"by_date", "by_host"}
    /\ LET result == GetTargetFullnames(target_prefixes, target_folders)
       IN  /\ error' = result.raised
           /\ target_fullnames' = result.names
           /\ named_prefix' = result.named
    /\ pc' = "resolved"
    /\ UNCHANGED <<workbook, consVars, anaVars, orderVars, colorVars, inputVars,
                   csv_by_date, date_index, prefix_index, sumVars, outVars>>

\* TargetHandler.get_existing_host_fullnames
CallGetExistingHostFullnames ==
    /\ pc = "targets"
    /\ variant = "legacy"
    /\ LET result == GetExistingHostFullnames(target_prefixes, target_folders)
       IN  /\ error' = result.raised
           /\ target_fullnames' = result.names
    /\ pc' = "resolved"
    /\ UNCHANGED <<workbook, consVars, anaVars, orderVars, colorVars, inputVars,
                   named_prefix, csv_by_date, date_index, prefix_index, sumVars,
                   outVars>>

NextTargets == CallGetTargetFullnames \/ CallGetExistingHostFullnames

SpecTargets == InitTargets /\ [][NextTargets]_vars

(***************************************************************************)
(* Claims on target resolution                                             *)
(***************************************************************************)
Matches(folder) ==
    \E n \in 1..Len(target_prefixes) : StartsWith(folder, target_prefixes[n])

Unmatched(prefix) ==
    \A f \in 1..Len(target_folders) : ~StartsWith(target_folders[f], prefix)

Returned == pc = "resolved" /\ variant \in {"by_date", "by_host"} /\ error = "none"

\* C15: get_target_fullnames is a filter over the folders of the log root.
\* When it returns, every returned name is a folder that starts with a
\* requested prefix, and every folder that starts with a requested prefix is
\* in the result.
C15_TargetFullnamesIsFilter ==
    Returned =>
        /\ \A n \in 1..Len(target_fullnames) :
              /\ target_fullnames[n] \in RangeOf(target_folders)
              /\ Matches(target_fullnames[n])
        /\ \A f \in 1..Len(target_folders) :
              Matches(target_folders[f]) =>
                  target_folders[f] \in RangeOf(target_fullnames)

\* two of three folders match the one prefix, the third is left out
C15_Witness ==
    /\ Returned
    /\ target_prefixes = <<<<"h">>>>
    /\ target_folders = <<<<"h", "1", "p">>, <<"g">>, <<"h", "2", "p">>>>
    /\ target_fullnames = <<<<"h", "1", "p">>, <<"h", "2", "p">>>>

\* C16: whenever a requested prefix matches no folder, get_target_fullnames
\* fails with a ValueError that names a requested prefix without folder, and
\* it returns no list, whatever the other prefixes match.
C16_UnmatchedPrefixFails ==
    (/\ pc = "resolved"
     /\ variant \in {"by_date", "by_host"}
     /\ \E n \in 1..Len(target_prefixes) : Unmatched(target_prefixes[n])) =>
        /\ error = "ValueError"
        /\ target_fullnames = <<>>
        /\ Len(named_prefix) = 1
        /\ named_prefix[1] \in RangeOf(target_prefixes)
        /\ Unmatched(named_prefix[1])

\* the first prefix has a folder, the second has none
C16_Witness ==
    /\ pc = "resolved"
    /\ variant = "by_host"
    /\ target_prefixes = <<<<"h", "1">>, <<"h", "4">>>>
    /\ target_folders = <<<<"h", "1", "p">>, <<"h", "2", "p">>>>
    /\ error = "ValueError"
    /\ target_fullnames = <<>>
    /\ named_prefix = <<<<"h", "4">>>>

\* C17: the list get_target_fullnames returns holds every folder at most
\* once, also a folder that several requested prefixes match.
C17_TargetFullnamesHasNoDuplicate ==
    Returned => IsInjective(target_fullnames)

\* C18: get_existing_host_fullnames of consolidate_csv_to_excel.py returns
\* the folders of the targets that match when at least one target matches a
\* folder, without error; it raises ValueError when, and only when, no target
\* matches any folder.
C18_LegacyToleratesUnmatchedTargets ==
    (pc = "resolved" /\ variant = "legacy") =>
        /\ (\E f \in 1..Len(target_folders) : Matches(target_folders[f])) =>
              /\ error = "none"
              /\ target_fullnames = MatchedHostNames(target_prefixes, target_folders)
        /\ (\A f \in 1..Len(target_folders) : ~Matches(target_folders[f])) =>
              error = "ValueError"

(***************************************************************************)
(* Claims on main: the end-to-end run and the exit status                 *)
(***************************************************************************)
\* one date; folder h1 has a CSV with the one row "5s", folder h2 has none;
\* the threshold is 4
SlowAndMissing ==
    /\ Len(date_range) = 1
    /\ config_threshold = [valid |-> TRUE, value |-> 4]
    /\ files[<<date_range[1], <<"h", "1">>>>] = SlowTable
    /\ files[<<date_range[1], <<"h", "2">>>>] = NoCsv

TabOf(sheets, title) ==
    {sheets[n].tabColor : n \in {m \in 1..Len(sheets) : sheets[m].title = title}}

\* the summary logged for the one date: an exceedance of h1, h2 without CSV
SummaryOfSlowAndMissing ==
    /\ Len(summary_log) = 1
    /\ summary_log[1].date = date_range[1]
    /\ RangeOf(summary_log[1].items) =
           {SummaryItem("Exceeded threshold detected for hosts", {<<"h", "1">>}),
            SummaryItem("Partial data loss, missing hosts", {<<"h", "2">>})}
    /\ Len(summary_log[1].items) = 2

\* C19: a run of main for the targets h1 and h2, where h1 has a CSV with one
\* row of time "5s", h2 has no CSV and the threshold is 4, ends with an
\* output workbook of 2 sheets, h1 with a yellow tab and h2 with a gray tab,
\* and with a summary of one threshold exceedance and one unit without CSV.
C19_EndToEndTwoSheets ==
    (/\ pc = "exited"
     /\ SlowAndMissing
     /\ target_prefixes = <<<<"h", "1">>, <<"h", "2">>>>) =>
        /\ exit_status = "0"
        /\ \E n \in 1..Len(saved) :
              /\ Len(saved[n].sheets) = 2
              /\ TabOf(saved[n].sheets, <<"h", "1">>) = {ColorRgb(YELLOW_WITH_TRANSPARENT)}
              /\ TabOf(saved[n].sheets, <<"h", "2">>) = {ColorRgb(GRAY_WITH_TRANSPARENT)}
        /\ SummaryOfSlowAndMissing


\* C20: main exits with a non-zero status whenever date resolution,
\* configuration loading, threshold validation or the expansion of the
\* target prefixes fails, and with status zero in every run where none of
\* them fails, whatever happens to single sheets.
C20_ExitStatusFollowsSetup ==
    pc = "exited" =>
        /\ ~SetupSucceeds => exit_status = "1"
        /\ SetupSucceeds => exit_status = "0"


\* the path of the n-th workbook the run opened for writing
OpenedPath(n) == CreateExcelPath(opened[n][1], opened[n][2])

\* C21: within one run no output path is opened for writing twice: the
\* workbooks that the units of main's loop open have pairwise different
\* paths, also when the requested prefixes overlap or repeat.
C21_EachPathOpenedOnce ==
    \A a, b \in 1..Len(opened) : OpenedPath(a) = OpenedPath(b) => a = b


(***************************************************************************)
(* ProcessingSummary on its own: add_missing_csv_info, then any calls of   *)
(* save_daily_processing_results, then log_daily_summaries                 *)
(***************************************************************************)
MaxCalls == 2

\* the keys of the summary: three dates
SummaryKeys == {Typed(<<1987, 12, 31>>), Dates[1], Dates[2]}

\* the dates of targets_and_csv_path_by_dates, in the order of the dict
SummaryDateLists == {q \in SeqsUpTo(SummaryKeys, Len(Dates)) : IsInjective(q)}

\* target_fullnames: no target, one, or two
SummaryTargetLists == {SubSeq(TargetFolders, 1, n) : n \in 0..Len(TargetFolders)}

\* a unit map of the targets: each with a CSV path or with None
IsPathMap(us, targets) ==
    /\ Len(us) = Len(targets)
    /\ \A n \in 1..Len(us) : us[n].name = targets[n] /\ us[n].src \in {NoCsv, SlowTable}

\* what one workbook hands over: nothing, a merge failure, an exceedance
\* with an anomaly, an exceedance
WorkbookOutcomes ==
    {<<{}, {}, {}>>, <<{TargetFolders[1]}, {}, {}>>,
     <<{}, {TargetFolders[1]}, {TargetFolders[2]}>>, <<{}, {TargetFolders[2]}, {}>>}

InitSummary ==
    /\ pc = "summary"
    /\ date_range \in SummaryDateLists
    /\ target_fullnames \in SummaryTargetLists
    /\ \E maps \in [1..Len(date_range) ->
                       {us \in SeqsOfLen({Unit(name, src) : name \in RangeOf(TargetFolders),
                                                            src \in {NoCsv, SlowTable}},
                                         Len(target_fullnames)) :
                            IsPathMap(us, target_fullnames)}] :
          csv_by_date = maps
    /\ argv_date = NoArgument
    /\ clock_now = <<1, 1, 2>>
    /\ libc_pads_year = TRUE
    /\ target_prefixes = <<>>
    /\ config_threshold = [valid |-> TRUE, value |-> 1]
    /\ config_file = "ok"
    /\ files = <<>>
    /\ target_folders = <<>>
    /\ named_prefix = <<>>
    /\ date_index = 1
    /\ prefix_index = 1
    /\ daily_summaries = <<>>
    /\ daily_processing_results = <<>>
    /\ summary_calls = <<>>
    /\ summary_log = <<>>
    /\ opened = <<>>
    /\ saved = <<>>
    /\ exit_status = "running"
    /\ workbook = <<>>
    /\ error = "none"
    /\ IdleConsolidator
    /\ IdleAnalyzer
    /\ IdleOrder
    /\ IdleColor

\* processing_summary.add_missing_csv_info(targets_and_csv_path_by_dates)
CallAddMissingCsvInfo ==
    /\ pc = "summary"
    /\ daily_summaries' = AddMissingCsvInfo(date_range, csv_by_date, 1)
    /\ pc' = "recording"
    /\ UNCHANGED <<workbook, error, consVars, anaVars, orderVars, colorVars,
                   inputVars, loopVars, daily_processing_results, summary_calls,
                   summary_log, outVars>>

\* processing_summary.save_daily_processing_results(key, ...) for a workbook
CallSaveDailyProcessingResults ==
    /\ pc = "recording"
    /\ Len(summary_calls) < MaxCalls
    /\ \E key \in SummaryKeys, outcome \in WorkbookOutcomes :
          /\ daily_processing_results' =
                 SaveDailyProcessingResults(daily_processing_results, key,
                                            outcome[1], outcome[2], outcome[3])
          /\ summary_calls' =
                 Append(summary_calls,
                        SummaryCall(key, outcome[1], outcome[2], outcome[3]))
    /\ UNCHANGED <<pc, workbook, error, consVars, anaVars, orderVars, colorVars,
                   inputVars, loopVars, daily_summaries, summary_log, outVars>>

\* processing_summary.log_daily_summaries()
CallLogDailySummaries ==
    /\ pc = "recording"
    /\ daily_summaries' =
           SummarizeDailyProcessingResults(daily_summaries, daily_processing_results)
    /\ summary_log' = LogBlocks(daily_summaries')
    /\ pc' = "logged"
    /\ UNCHANGED <<workbook, error, consVars, anaVars, orderVars, colorVars,
                   inputVars, loopVars, daily_processing_results, summary_calls,
                   outVars>>

NextSummary ==
    \/ CallAddMissingCsvInfo
    \/ CallSaveDailyProcessingResults
    \/ CallLogDailySummaries

SpecSummary == InitSummary /\ [][NextSummary]_vars

(***************************************************************************)
(* Claims on ProcessingSummary                                             *)
(***************************************************************************)
CallsOf(key) == {n \in 1..Len(summary_calls) : summary_calls[n].key = key}

CalledKeys == {summary_calls[n].key : n \in 1..Len(summary_calls)}

\* C22: the summary is additive.  After any calls of
\* save_daily_processing_results the keys recorded are the keys of the
\* calls, and the three sets under a key are the unions of the sets of the
\* calls for that key, so that no call changes the sets of another key.
C22_SummaryIsAdditive ==
    /\ DOMAIN daily_processing_results = CalledKeys
    /\ \A key \in CalledKeys :
          /\ daily_processing_results[key].merge_failed_hosts =
                 UNION {summary_calls[n].merge_failed_hosts : n \in CallsOf(key)}
          /\ daily_processing_results[key].hosts_with_threshold_exceedance =
                 UNION {summary_calls[n].hosts_with_threshold_exceedance : n \in CallsOf(key)}
          /\ daily_processing_results[key].hosts_with_anomaly_value =
                 UNION {summary_calls[n].hosts_with_anomaly_value : n \in CallsOf(key)}

\* two workbooks recorded under one date: a merge failure, then an
\* exceedance with an anomaly
C22_Witness ==
    /\ Len(summary_calls) = 2
    /\ summary_calls[1] = SummaryCall(Dates[1], {TargetFolders[1]}, {}, {})
    /\ summary_calls[2] = SummaryCall(Dates[1], {}, {TargetFolders[1]}, {TargetFolders[2]})
    /\ daily_processing_results[Dates[1]] =
           [merge_failed_hosts |-> {TargetFolders[1]},
            hosts_with_threshold_exceedance |-> {TargetFolders[1]},
            hosts_with_anomaly_value |-> {TargetFolders[2]}]

\* the dates add_missing_csv_info has an entry for
DatesWithMissingCsv ==
    {date_range[n] : n \in {m \in 1..Len(date_range) :
                               \E u \in 1..Len(csv_by_date[m]) :
                                   csv_by_date[m][u].src.kind = "none"}}
    \cup {date_range[n] : n \in {m \in 1..Len(date_range) : csv_by_date[m] = <<>>}}

\* a key recorded with nothing to report: no CSV missing, and every
\* workbook recorded under it with three empty sets
IsClean(key) ==
    /\ key \notin DatesWithMissingCsv
    /\ key \in CalledKeys
    /\ \A n \in CallsOf(key) :
          summary_calls[n] = SummaryCall(key, {}, {}, {})

\* C23: log_daily_summaries logs one block for every recorded key, in
\* ascending order of the keys, and the block of a key with nothing to
\* report holds the line "No anomalies detected.".
C23_OneBlockPerKeyAscending ==
    pc = "logged" =>
        /\ {summary_log[n].date : n \in 1..Len(summary_log)}
               = DatesWithMissingCsv \cup CalledKeys
        /\ \A a, b \in 1..Len(summary_log) :
              a < b => DigitsValue(summary_log[a].date) < DigitsValue(summary_log[b].date)
        /\ \A n \in 1..Len(summary_log) :
              /\ summary_log[n].items # <<>>
              /\ IsClean(summary_log[n].date) =>
                     summary_log[n].items = <<SummaryItem("No anomalies detected.", {})>>

\* the later date is recorded first, with nothing to report; the earlier one
\* second, with an exceedance
C23_Witness ==
    /\ pc = "logged"
    /\ DatesWithMissingCsv = {}
    /\ summary_calls = <<SummaryCall(Dates[2], {}, {}, {}),
                         SummaryCall(Dates[1], {}, {TargetFolders[2]}, {})>>
    /\ Len(summary_log) = 2
    /\ summary_log[1].date = Dates[1]
    /\ summary_log[2] = [date |-> Dates[2],
                         items |-> <<SummaryItem("No anomalies detected.", {})>>]

Lacking(us) == {n \in 1..Len(us) : us[n].src.kind = "none"}

\* C24: add_missing_csv_info classifies every date in exactly one way.  A
\* date all of whose targets lack a CSV gets the one entry "No CSV files
\* found."; a date where some but not all targets lack a CSV gets the one
\* partial-loss entry that lists exactly the targets without CSV; a date
\* whose targets all have a CSV gets no entry.
C24_MissingCsvClassification ==
    pc = "recording" =>
        \A n \in 1..Len(date_range) :
            LET us == csv_by_date[n]
                date == date_range[n]
            IN  /\ Lacking(us) = 1..Len(us) =>
                       /\ date \in DOMAIN daily_summaries
                       /\ daily_summaries[date] = <<SummaryItem("No CSV files found.", {})>>
                /\ (Lacking(us) # {} /\ Lacking(us) # 1..Len(us)) =>
                       /\ date \in DOMAIN daily_summaries
                       /\ daily_summaries[date] =
                              <<SummaryItem("Partial data loss, missing hosts",
                                            {us[m].name : m \in Lacking(us)})>>
                /\ (Lacking(us) = {} /\ us # <<>>) =>
                       date \notin DOMAIN daily_summaries

\* two dates of two targets: on the first one target lacks its CSV, on the
\* second both have theirs
C24_Witness ==
    /\ pc = "recording"
    /\ Len(date_range) = 2
    /\ Len(csv_by_date[1]) = 2
    /\ Lacking(csv_by_date[1]) = {2}
    /\ Lacking(csv_by_date[2]) = {}
    /\ DOMAIN daily_summaries = {date_range[1]}
    /\ daily_summaries[date_range[1]] =
           <<SummaryItem("Partial data loss, missing hosts", {TargetFolders[2]})>>


(***************************************************************************)
(* DateHandler of consolidate_csv_to_excel.py                              *)
(***************************************************************************)
LEGACY_DATE_DELIMITER == "-"

\* the text the %m or %d directive of strptime takes from the head of a
\* text of digits: two digits that name a number from 1 to most, else one
\* digit from 1 to 9, else nothing; as a list, in the order the regular
\* expression tries them
FieldChoices(text, most) ==
    (IF Len(text) >= 2 /\ IsDigits(SubSeq(text, 1, 2))
        /\ DigitsValue(SubSeq(text, 1, 2)) \in 1..most
     THEN <<2>> ELSE <<>>)
    \o (IF Len(text) >= 1 /\ IsDigits(SubSeq(text, 1, 1))
           /\ DigitsValue(SubSeq(text, 1, 1)) \in 1..9
        THEN <<1>> ELSE <<>>)

\* datetime.strptime(text, "%Y%m%d"): four digits of year, then the first
\* choice of month after which a day can be read, then the first choice of
\* day; ValueError when nothing matches, when text remains, or when the day
\* is not in the calendar
Strptime(text) ==
    IF Len(text) < 4 \/ ~IsDigits(SubSeq(text, 1, 4))
    THEN [raised |-> "ValueError", date |-> <<>>]
    ELSE LET rest == SubSeq(text, 5, Len(text))
             months == SelectSeq(FieldChoices(rest, 12),
                           LAMBDA w : FieldChoices(SubSeq(rest, w + 1, Len(rest)), 31) # <<>>)
         IN  IF months = <<>> THEN [raised |-> "ValueError", date |-> <<>>]
             ELSE LET mw == Head(months)
                      dw == Head(FieldChoices(SubSeq(rest, mw + 1, Len(rest)), 31))
                      y == DigitsValue(SubSeq(text, 1, 4))
                      m == DigitsValue(SubSeq(rest, 1, mw))
                      dd == DigitsValue(SubSeq(rest, mw + 1, mw + dw))
                  IN  IF mw + dw # Len(rest) \/ y < 1 \/ dd > DaysInMonth(y, m)
                      THEN [raised |-> "ValueError", date |-> <<>>]
                      ELSE [raised |-> "none", date |-> <<y, m, dd>>]

\* DateHandler._is_valid_date
IsValidDate(input_date) == Strptime(input_date).raised = "none"

\* DateHandler.generate_date_range: the walk from start to end, the ends as
\* they are given
LegacyGenerateDateRange(start_date_str, end_date_str, pads_year) ==
    DayWalk(Strptime(start_date_str).date, Strptime(end_date_str).date, pads_year)

\* DateHandler.get_input_date_or_yesterday on sys.argv[1]; unpacking a split
\* that has not two parts is a ValueError, an invalid date is sys.exit(1)
GetInputDateOrYesterday(arg, now, pads_year) ==
    IF ~arg.given THEN DateResult("none", <<FormatDate(PrevDay(now), pads_year)>>)
    ELSE IF \E n \in 1..Len(arg.text) : arg.text[n] = LEGACY_DATE_DELIMITER
    THEN LET parts == Split(arg.text, LEGACY_DATE_DELIMITER)
         IN  IF Len(parts) # 2 THEN DateResult("ValueError", <<>>)
             ELSE IF IsValidDate(parts[1]) /\ IsValidDate(parts[2])
             THEN DateResult("none", LegacyGenerateDateRange(parts[1], parts[2],
                                                             pads_year))
             ELSE DateResult("SystemExit", <<>>)
    ELSE IF IsValidDate(arg.text) THEN DateResult("none", <<arg.text>>)
    ELSE DateResult("SystemExit", <<>>)

LegacyRangeText(a, b) == a \o <<LEGACY_DATE_DELIMITER>> \o b

\* sys.argv[1] of consolidate_csv_to_excel.py: absent, a text that is no
\* range, ranges of two dates written with "-" and with "~", ranges with a
\* part that is no date
LegacyDateArguments ==
    {NoArgument}
    \cup {Argument(part) : part \in BadParts}
    \cup UNION {{Argument(Typed(a)) : a \in Window(w)} : w \in WindowStarts}
    \cup UNION {{Argument(LegacyRangeText(Typed(a), Typed(b))) : a, b \in Window(w)} :
                    w \in WindowStarts}
    \cup {Argument(RangeText(Typed(a), Typed(b))) : a, b \in Window(<<1988, 2, 27>>)}
    \cup {Argument(LegacyRangeText(Typed(<<1988, 2, 27>>), part)) : part \in BadParts}

InitLegacyDate ==
    /\ pc = "legacy_dates"
    /\ variant = "legacy"
    /\ argv_date \in LegacyDateArguments
    /\ clock_now \in Nows
    /\ libc_pads_year \in BOOLEAN
    /\ date_range = <<>>
    /\ target_prefixes = <<>>
    /\ config_threshold = [valid |-> TRUE, value |-> 1]
    /\ config_file = "ok"
    /\ files = <<>>
    /\ target_folders = <<>>
    /\ target_fullnames = <<>>
    /\ named_prefix = <<>>
    /\ csv_by_date = <<>>
    /\ date_index = 1
    /\ prefix_index = 1
    /\ daily_summaries = <<>>
    /\ daily_processing_results = <<>>
    /\ summary_calls = <<>>
    /\ opened = <<>>
    /\ saved = <<>>
    /\ summary_log = <<>>
    /\ exit_status = "running"
    /\ workbook = <<>>
    /\ error = "none"
    /\ units = <<>>
    /\ i = 1
    /\ merge_failed_hosts = {}
    /\ counts = [copied |-> 0, no_csv |-> 0, failed |-> 0]
    /\ absent_deletes = 0
    /\ IdleAnalyzer
    /\ IdleOrder
    /\ IdleColor

\* date_range = date_handler.get_input_date_or_yesterday()
CallGetInputDateOrYesterday ==
    /\ pc = "legacy_dates"
    /\ LET result == GetInputDateOrYesterday(argv_date, clock_now, libc_pads_year)
       IN  /\ date_range' = result.dates
           /\ error' = result.raised
    /\ pc' = "legacy_dated"
    /\ UNCHANGED <<workbook, consVars, anaVars, orderVars, colorVars,
                   argv_date, clock_now, libc_pads_year, target_prefixes, config_threshold,
                   config_file, files, target_folders, loopVars, sumVars, outVars>>

NextLegacyDate == CallGetInputDateOrYesterday

SpecLegacyDate == InitLegacyDate /\ [][NextLegacyDate]_vars

LegacyParts == Split(argv_date.text, LEGACY_DATE_DELIMITER)

\* the argument is a range of two 8-digit dates, written with the delimiter
\* of consolidate_csv_to_excel.py
IsLegacyRange ==
    /\ argv_date.given
    /\ Len(LegacyParts) = 2
    /\ IsDateText(LegacyParts[1])
    /\ IsDateText(LegacyParts[2])

LegacyLow ==
    IF DayNumber(DateOfText(LegacyParts[1])) <= DayNumber(DateOfText(LegacyParts[2]))
    THEN LegacyParts[1] ELSE LegacyParts[2]

LegacyHigh ==
    IF DayNumber(DateOfText(LegacyParts[1])) <= DayNumber(DateOfText(LegacyParts[2]))
    THEN LegacyParts[2] ELSE LegacyParts[1]

\* C25: in consolidate_csv_to_excel.py a range of two dates resolves to the
\* ascending list of every day from the earlier to the later date, both
\* included, in whichever order the two dates are given.
C25_LegacyRangeIsSwapInvariant ==
    (pc = "legacy_dated" /\ IsLegacyRange) =>
        /\ error = "none"
        /\ Len(date_range) = DayNumber(DateOfText(LegacyHigh))
                                 - DayNumber(DateOfText(LegacyLow)) + 1
        /\ \A n \in 1..Len(date_range) :
              /\ IsDateText(date_range[n])
              /\ DayNumber(DateOfText(date_range[n]))
                     = DayNumber(DateOfText(LegacyLow)) + n - 1


(***************************************************************************)
(* Claims on the outcome of every unit                                     *)
(***************************************************************************)
SheetsOf(name) == {n \in 1..Len(workbook) : workbook[n].title = name}

\* the unit has its data sheet, without tab colour
HasDataSheet(u) ==
    /\ u.src.kind # "none"
    /\ u.name \notin merge_failed_hosts
    /\ \E n \in SheetsOf(u.name) :
          workbook[n].kind = "data" /\ workbook[n].tabColor = NoColor

\* the unit has the gray placeholder sheet of one cell
HasPlaceholder(u) ==
    /\ u.src.kind = "none"
    /\ u.name \notin merge_failed_hosts
    /\ \E n \in SheetsOf(u.name) :
          workbook[n] = NoCsvSheet(u.name, GRAY_WITH_TRANSPARENT)

\* the unit is in the failure set and has no sheet
HasFailedWithoutSheet(u) ==
    /\ u.src.kind # "none"
    /\ u.name \in merge_failed_hosts
    /\ SheetsOf(u.name) = {}

OutcomesOf(u) ==
    {o \in {"data", "placeholder", "failed"} :
        \/ o = "data" /\ HasDataSheet(u)
        \/ o = "placeholder" /\ HasPlaceholder(u)
        \/ o = "failed" /\ HasFailedWithoutSheet(u)}

\* C26: when consolidate_csvs_to_excel has returned, every unit has exactly
\* one of three outcomes (a data sheet without tab colour, a gray
\* placeholder sheet, or a place in the failure set without any sheet), the
\* workbook holds no sheet but those of the units, at most one per unit, and
\* the sheets stand in the order of their units.
C26_EveryUnitHasOneOutcome ==
    (Consolidated /\ variant = "by_date") =>
        /\ \A j \in 1..Len(units) : Cardinality(OutcomesOf(units[j])) = 1
        /\ \A n \in 1..Len(workbook) :
              \E j \in 1..Len(units) : workbook[n].title = units[j].name
        /\ \A j \in 1..Len(units) : Cardinality(SheetsOf(units[j].name)) <= 1
        /\ \A a, b \in 1..Len(workbook) :
              a < b => \E j, m \in 1..Len(units) :
                          /\ j < m
                          /\ workbook[a].title = units[j].name
                          /\ workbook[b].title = units[m].name


(***************************************************************************)
(* Claims on the placeholder sheet under analysis                          *)
(***************************************************************************)
Placeholders == {n \in 1..Len(workbook) : workbook[n].kind = "placeholder"}

\* C27: analysis never changes a gray placeholder sheet.  It has no data
\* row, and at every point of highlight_cells_and_sheet_tab_by_criteria and
\* after it the sheet is as _create_no_csv_sheet made it (gray tab, no cell
\* highlighted) and its unit is in neither the threshold-exceeded set nor
\* the anomaly set.
C27_PlaceholderUntouchedByAnalysis ==
    \A n \in Placeholders :
        /\ workbook[n].rows = <<>>
        /\ workbook[n] = NoCsvSheet(workbook[n].title, GRAY_WITH_TRANSPARENT)
        /\ workbook[n].tabColor = ColorRgb(GRAY_WITH_TRANSPARENT)
        /\ workbook[n].title \notin hosts_with_threshold_exceedance
        /\ workbook[n].title \notin hosts_with_anomaly_value

\* analysis has returned: the first sheet got its yellow tab for a row over
\* the threshold, the placeholder after it is as it was
C27_Witness ==
    /\ pc = "highlighted"
    /\ Len(workbook) = 2
    /\ workbook[1].tabColor = ColorRgb(YELLOW_WITH_TRANSPARENT)
    /\ hosts_with_threshold_exceedance = {workbook[1].title}
    /\ Placeholders = {2}
    /\ workbook[2].tabColor = ColorRgb(GRAY_WITH_TRANSPARENT)


(***************************************************************************)
(* Claims on a second reorder                                              *)
(***************************************************************************)
RECURSIVE MoveSheetsFrom(_, _, _)
\* the loop of reorder_sheets_by_color from entry n of the new order on
MoveSheetsFrom(wb, order, n) ==
    IF n > Len(order) THEN wb
    ELSE MoveSheetsFrom(MoveSheet(wb, order[n], Len(wb)), order, n + 1)

\* reorder_sheets_by_color as one call on a workbook
ReorderSheetsByColor(wb) == MoveSheetsFrom(wb, CreateNewOrderOf(wb), 1)

SheetSet(wb) == {wb[n] : n \in 1..Len(wb)}

\* C28: for a workbook whose tabs are yellow, gray or uncoloured, the
\* reorder only permutes the sheets: every step keeps the number of sheets
\* and the set of sheets with their titles, tab colours and contents; and the
\* reorder is idempotent: applied to the workbook it has produced it leaves
\* the order as it is.
C28_ReorderIsIdempotentPermutation ==
    /\ []((pc = "reordered" /\ AllTagged) => ReorderSheetsByColor(workbook) = workbook)
    /\ [][AllTagged =>
              /\ Len(workbook') = Len(workbook)
              /\ SheetSet(workbook') = SheetSet(workbook)]_vars

\* gray, none, yellow has become yellow, none, gray, and a second reorder
\* gives the same workbook
C28_Witness ==
    /\ pc = "reordered"
    /\ Len(workbook) = 3
    /\ [n \in 1..3 |-> workbook[n].title] = <<OrderTitle(3), OrderTitle(2), OrderTitle(1)>>
    /\ [n \in 1..3 |-> workbook[n].tabColor]
          = <<YELLOW_WITH_TRANSPARENT, NoColor, GRAY_WITH_TRANSPARENT>>
    /\ ReorderSheetsByColor(workbook) = workbook


(***************************************************************************)
(* Claims on main: validation before output                                *)
(***************************************************************************)
\* C29: date resolution, configuration loading, target-prefix expansion and
\* threshold validation are all done before the first workbook is opened: a
\* workbook is opened or saved only after the steps before the loop have
\* all succeeded, so a run in which one of them fails has created no output
\* directory and no output file at any point, its exit included.
C29_ValidationBeforeOutput ==
    \/ opened = <<>> /\ saved = <<>>
    \/ SetupSucceeds /\ pc # "main"

\* a run with a good date, a matching prefix and a CSV to consolidate has
\* exited on the threshold of its config file, without any output
C29_Witness ==
    /\ pc = "exited"
    /\ exit_status = "1"
    /\ ~config_threshold.valid
    /\ config_file = "ok"
    /\ GetDateRangeOrYesterday(argv_date, clock_now, libc_pads_year).raised = "none"
    /\ GetTargetFullnames(target_prefixes, target_folders).raised = "none"
    /\ \E key \in DOMAIN files : files[key] # NoCsv
    /\ opened = <<>>
    /\ saved = <<>>


(***************************************************************************)
(* Claims on the colour for every accepted threshold                       *)
(***************************************************************************)
\* C30: for every integer threshold, zero and negative ones included, and
\* every processing time that is at least the threshold,
\* _calculate_color_based_on_excess_ratio raises nothing and returns six hex
\* digits FF<gg>7F with the green channel between 127 and 255, and no
\* smaller processing time (from the threshold on) gets a smaller green
\* channel.
C30_ColorForEveryThreshold ==
    pc = "colored" =>
        /\ color_out.raised = "none"
        /\ Len(color_out.code) = 6
        /\ RedOf(color_out.code) = <<"F","F">>
        /\ BlueOf(color_out.code) = <<"7","F">>
        /\ HexValue(GreenOf(color_out.code)) \in 127..255
        /\ \A v \in ColorThreshold..ColorValue :
              LET smaller == CalculateColor(v, ColorThreshold)
              IN  /\ smaller.raised = "none"
                  /\ Len(smaller.code) = 6
                  /\ HexValue(GreenOf(smaller.code)) >= HexValue(GreenOf(color_out.code))

=============================================================================
